---- MODULE Spec2Model ----
(***************************************************************************)
(* University portal backend (backend/app): the login / lockout state      *)
(* machine, the cookie-token resolution and role gate, the personal pins,  *)
(* the audit log and the uploaded file approval workflow, modelled handler *)
(* by handler; and the smart repository service (routes, services): the    *)
(* uploads, the text splitter and the retrieval behind the chat.           *)
(*                                                                         *)
(* Time is counted in whole seconds.  datetime.utcnow() is read several    *)
(* times inside one login request; every read is modelled as its own value *)
(* (t1 at auth.py line 41, t2 at line 42, t3 at line 51) with t1 <= t2 and *)
(* t1 <= t3; consecutive requests are at least one Tick apart, reads       *)
(* inside one request a few seconds at most.  Requests are handled one at  *)
(* a time (the handlers are async functions without an await, so one runs  *)
(* to completion before the next).  Two specifications cut a handler in   *)
(* two: SpecCrash stops approve_file between its two writes, and SpecRace  *)
(* serves logins of one account from several worker processes.             *)
(***************************************************************************)
EXTENDS Integers, Sequences, FiniteSets, TLC

VARIABLES users, students, faculties, files, pins, notifs, disk, repo,
          now, resp, hist, audit, repository_files, doc_chunks,
          section, chunks, procs

(* procs: the login requests in flight, one per worker process (SpecRace); *)
(* empty where requests are handled one at a time                          *)
vars == <<users, students, faculties, files, pins, notifs, disk, repo,
          now, resp, hist, audit, repository_files, doc_chunks,
          section, chunks, procs>>

(* The tables of the smart repository service, and the text its splitter   *)
(* is working on with the chunks it made of it                             *)
smart == <<repository_files, doc_chunks, section, chunks>>

----------------------------------------------------------------------------
(* Bounds of the exploration *)

MaxTime == 900          \* the clock is explored up to this many seconds
MaxReadGap == 2         \* seconds between the clock reads of lines 41 and 42
MaxVerifyGap == 1       \* seconds between the clock reads of lines 41 and 51
MaxFiles == 1           \* UploadedFile rows
MaxPins == 2            \* StudentPin rows
MaxSubLen == 2          \* characters of a token subject

(* Program constants *)

MaxAttempts == 4        \* routers/auth.py: if account.failed_attempts >= 4
LockMinutes == 10       \* routers/auth.py: timedelta(minutes=10)
SecondsPerMinute == 60  \* routers/auth.py: total_seconds() / 60

LockSeconds == LockMinutes * SecondsPerMinute
Tick == SecondsPerMinute
Steps == {Tick, LockSeconds - Tick, LockSeconds}

None == -1              \* Optional[datetime] = None

Role == {"STUDENT", "FACULTY", "ADMIN"}
Status == {"PENDING", "ACTIVE", "SUSPENDED"}
FileStatus == {"PENDING", "APPROVED", "DENIED"}

----------------------------------------------------------------------------
(* Passwords: bcrypt is a salted one-way hash; checkpw(p, hashpw(q)) holds *)
(* exactly when p = q.                                                     *)

Passwords == {"pw1", "pw2"}

get_password_hash(password) == <<"bcrypt", password>>

verify_password(plain_password, hashed_password) ==
    get_password_hash(plain_password) = hashed_password

----------------------------------------------------------------------------
(* Strings that are converted are sequences of one-character strings.      *)

Digits == {"0", "1", "2", "3", "4", "5", "6", "7", "8", "9"}

DigitVal(c) ==
    CASE c = "0" -> 0 [] c = "1" -> 1 [] c = "2" -> 2 [] c = "3" -> 3
      [] c = "4" -> 4 [] c = "5" -> 5 [] c = "6" -> 6 [] c = "7" -> 7
      [] c = "8" -> 8 [] c = "9" -> 9

DigitChar(d) ==
    CASE d = 0 -> "0" [] d = 1 -> "1" [] d = 2 -> "2" [] d = 3 -> "3"
      [] d = 4 -> "4" [] d = 5 -> "5" [] d = 6 -> "6" [] d = 7 -> "7"
      [] d = 8 -> "8" [] d = 9 -> "9"

RECURSIVE str(_)
(* str(n) of a non-negative int: its decimal digits *)
str(n) == IF n < 10 THEN <<DigitChar(n)>>
          ELSE Append(str(n \div 10), DigitChar(n % 10))

RECURSIVE LStrip(_)
LStrip(s) == IF s # <<>> /\ Head(s) = " " THEN LStrip(Tail(s)) ELSE s

RECURSIVE RStrip(_)
RStrip(s) == IF s # <<>> /\ s[Len(s)] = " "
             THEN RStrip(SubSeq(s, 1, Len(s) - 1)) ELSE s

RECURSIVE DigitsValue(_)
DigitsValue(s) == IF s = <<>> THEN 0
                  ELSE 10 * DigitsValue(SubSeq(s, 1, Len(s) - 1))
                       + DigitVal(s[Len(s)])

(* The outcome of a conversion: a value, or the ValueError it raises *)
Value(n) == [ok |-> TRUE, value |-> n]

ValueError == [ok |-> FALSE, value |-> 0]

(* int(s) of a str: surrounding whitespace is dropped, one sign is         *)
(* accepted, the rest must be a non-empty run of digits.                   *)
int(s) ==
    LET t == RStrip(LStrip(s))
        signed == t # <<>> /\ Head(t) \in {"-", "+"}
        body == IF signed THEN Tail(t) ELSE t
    IN IF body = <<>> \/ \E i \in 1..Len(body) : body[i] \notin Digits
       THEN ValueError
       ELSE IF signed /\ Head(t) = "-" THEN Value(0 - DigitsValue(body))
            ELSE Value(DigitsValue(body))

(* int(x / 60) of a float: truncation towards zero *)
IntTrunc(a, b) == IF a >= 0 THEN a \div b ELSE 0 - ((0 - a) \div b)

----------------------------------------------------------------------------
(* Tokens and the access_token cookie.  A token is its claims plus whether *)
(* the signature verifies under SECRET_KEY and whether exp lies in the     *)
(* past.  present = FALSE is a request without the cookie; hasSub = FALSE  *)
(* is a payload without "sub".                                             *)

Token(sub, kind) ==
    [present |-> TRUE, sig |-> TRUE, expired |-> FALSE, hasSub |-> TRUE,
     sub |-> sub, kind |-> kind]

NoCookie ==
    [present |-> FALSE, sig |-> FALSE, expired |-> FALSE, hasSub |-> FALSE,
     sub |-> <<>>, kind |-> "access"]

create_access_token(sub) == Token(sub, "access")

create_refresh_token(sub) == Token(sub, "refresh")

----------------------------------------------------------------------------
(* Rows.  A table is a sequence of rows; the primary key of a row is its   *)
(* position (ids are handed out 1, 2, 3, ...).                             *)

NewUser(email, password_hash, role, status) ==
    [email |-> email, password_hash |-> password_hash, role |-> role,
     status |-> status, failed_attempts |-> 0, lockout_until |-> None]

NoHist == [run |-> 0, startFa |-> 0, startLock |-> None, t3 |-> None]

NoBefore == [failed_attempts |-> 0, lockout_until |-> None,
             status |-> "", run |-> 0]

(* The last response, with the request that produced it *)
NoResp == [op |-> "none", status |-> 0, detail |-> "", user |-> 0,
           retry |-> 0, cookies |-> {}, email |-> "", password |-> "",
           token |-> NoCookie, arg |-> 0, data |-> << >>,
           before |-> NoBefore, ext |-> "", logged |-> ""]

(* No text has been handed to the splitter *)
NoSection == [shape |-> "none", n |-> 0, file_type |-> ""]

(* Addresses tried at the login form *)
Emails == {"student@university.edu", "nobody@university.edu"}

(* select(User).where(User.email == email) ... .first() : 0 when no row *)
UserByEmail(email) ==
    IF \E i \in DOMAIN users : users[i].email = email
    THEN CHOOSE i \in DOMAIN users :
            /\ users[i].email = email
            /\ \A j \in DOMAIN users : users[j].email = email => i <= j
    ELSE 0

(* select(Student).where(Student.user_id == uid).first() : 0 when no row *)
StudentOf(uid) ==
    IF \E i \in DOMAIN students : students[i].user_id = uid
    THEN CHOOSE i \in DOMAIN students :
            /\ students[i].user_id = uid
            /\ \A j \in DOMAIN students : students[j].user_id = uid => i <= j
    ELSE 0

(* select(Faculty).where(Faculty.user_id == uid).first() : 0 when no row *)
FacultyOf(uid) ==
    IF \E i \in DOMAIN faculties : faculties[i].user_id = uid
    THEN CHOOSE i \in DOMAIN faculties :
            /\ faculties[i].user_id = uid
            /\ \A j \in DOMAIN faculties : faculties[j].user_id = uid => i <= j
    ELSE 0

----------------------------------------------------------------------------
(* POST /auth/login *)

(* line 41: account.lockout_until and account.lockout_until > utcnow() *)
Locked_lt(account, t) ==
    account.lockout_until # None /\ account.lockout_until < t

Locked_ge(account, t) ==
    account.lockout_until # None /\ account.lockout_until >= t

Locked(account, t) ==
    account.lockout_until # None /\ account.lockout_until > t

(* line 42: int((lockout_until - utcnow()).total_seconds() / 60) + 1 *)
RetryIn_floor(lockout_until, t) ==
    LET a == lockout_until - t
        b == SecondsPerMinute
    IN (IF a >= 0 THEN a \div b ELSE 0 - (((0 - a) + b - 1) \div b)) + 1

RetryIn(lockout_until, t) ==
    IntTrunc(lockout_until - t, SecondsPerMinute) + 1

(* lines 46-52: the account row after a wrong password, t3 = utcnow() *)
FailedAttempt_noreset(account, t3) ==
    LET n == account.failed_attempts + 1
    IN IF n >= MaxAttempts
       THEN [account EXCEPT !.lockout_until = t3 + LockSeconds,
                            !.failed_attempts = n]
       ELSE [account EXCEPT !.failed_attempts = n]

FailedAttempt_third(account, t3) ==
    LET n == account.failed_attempts + 1
    IN IF n >= MaxAttempts - 1
       THEN [account EXCEPT !.lockout_until = t3 + LockSeconds,
                            !.failed_attempts = 0]
       ELSE [account EXCEPT !.failed_attempts = n]

FailedAttempt_gt(account, t3) ==
    LET n == account.failed_attempts + 1
    IN IF n > MaxAttempts
       THEN [account EXCEPT !.lockout_until = t3 + LockSeconds,
                            !.failed_attempts = 0]
       ELSE [account EXCEPT !.failed_attempts = n]

FailedAttempt(account, t3) ==
    LET n == account.failed_attempts + 1
    IN IF n >= MaxAttempts
       THEN [account EXCEPT !.lockout_until = t3 + LockSeconds,
                            !.failed_attempts = 0]
       ELSE [account EXCEPT !.failed_attempts = n]

(* lines 62-63: the account row after a password match *)
PasswordMatched_keep(account) ==
    [account EXCEPT !.failed_attempts = 0]

PasswordMatched(account) ==
    [account EXCEPT !.failed_attempts = 0, !.lockout_until = None]

PendingMsg == "Account pending admin approval."
SuspendedMsg == "Account suspended."

(* lines 67-70: the 403 detail of the status gate, "" when it lets through *)
StatusGate_pending(account) ==
    IF account.status = "PENDING" THEN PendingMsg ELSE ""

StatusGate(account) ==
    IF account.status = "PENDING" THEN PendingMsg
    ELSE IF account.status = "SUSPENDED" THEN SuspendedMsg
    ELSE ""

(* Whether the INSERT of the audit row went through *)
AuditOutcomes == {"written", "failed"}

(* audit holds the newest row of audit_log (<< >> while the table is       *)
(* empty); the table is append-only and the handlers never read it.  The   *)
(* whole body of log_action is inside try / except Exception: pass, so a   *)
(* failed write leaves the table as it was and nothing is raised.          *)
log_action(lg, action, actor_id) ==
    IF lg = "written"
    THEN << [action |-> action, actor_id |-> actor_id] >>
    ELSE audit

(* The response of a request that called log_action (history only) *)
Logged(r, lg) == [r EXCEPT !.logged = lg]

(* What the account looked like when the request read it (history only) *)
Before(a) ==
    [failed_attempts |-> users[a].failed_attempts,
     lockout_until |-> users[a].lockout_until,
     status |-> users[a].status,
     run |-> hist[a].run]

LoginResp(status, detail, a, email, password) ==
    [NoResp EXCEPT !.op = "login", !.status = status, !.detail = detail,
                   !.user = a, !.email = email, !.password = password,
                   !.before = IF a = 0 THEN NoBefore ELSE Before(a)]

Login(email, password, d, lg) ==
    LET t1 == now + d
        a == UserByEmail(email)
        account == users[a]
    IN
    /\ t1 <= MaxTime
    /\ now' = t1
    /\ UNCHANGED <<students, faculties, files, pins, notifs, disk, repo,
                   smart, procs>>
    /\ IF a = 0 THEN
          /\ audit' = log_action(lg, "LOGIN_FAILED", 0)
          /\ resp' = Logged(LoginResp(401, "Invalid email or password.", 0,
                                      email, password), lg)
          /\ UNCHANGED <<users, hist>>
       ELSE IF Locked(account, t1) THEN
          /\ \E t2 \in t1..(t1 + MaxReadGap) :
                resp' = [LoginResp(403, "Account locked", a, email, password)
                           EXCEPT !.retry = RetryIn(account.lockout_until, t2),
                                  !.data = <<t2>>]
          /\ UNCHANGED <<users, hist, audit>>
       ELSE IF ~verify_password(password, account.password_hash) THEN
          \E t3 \in t1..(t1 + MaxVerifyGap) :
          LET after == FailedAttempt(account, t3)
              run == IF hist[a].run >= MaxAttempts \/ hist[a].run = 0
                     THEN 1 ELSE hist[a].run + 1
          IN
          /\ users' = [users EXCEPT ![a] = after]
          /\ audit' = log_action(lg, "LOGIN_FAILED", a)
          /\ resp' = Logged(
                 IF after.lockout_until # account.lockout_until
                 THEN LoginResp(401, "Too many failed attempts", a,
                                email, password)
                 ELSE [LoginResp(401, "Attempt n/4", a, email, password)
                         EXCEPT !.arg = account.failed_attempts + 1], lg)
          /\ hist' = [hist EXCEPT ![a] =
                 IF run = 1
                 THEN [run |-> 1, startFa |-> account.failed_attempts,
                       startLock |-> account.lockout_until, t3 |-> t3]
                 ELSE [hist[a] EXCEPT !.run = run, !.t3 = t3]]
       ELSE
          /\ users' = [users EXCEPT ![a] = PasswordMatched(account)]
          /\ hist' = [hist EXCEPT ![a] = NoHist]
          /\ audit' = IF StatusGate(account) # "" THEN audit
                       ELSE log_action(lg, "LOGIN", a)
          /\ resp' =
               IF StatusGate(account) # ""
               THEN LoginResp(403, StatusGate(account), a, email, password)
               ELSE [LoginResp(200, "Login successful", a, email, password)
                       EXCEPT !.cookies = {create_access_token(str(a)),
                                           create_refresh_token(str(a))},
                              !.logged = lg]

(* The login runs are explored with the audit table accepting its rows *)
LoginStep ==
    \E email \in Emails, password \in Passwords, d \in Steps :
        Login(email, password, d, "written")

----------------------------------------------------------------------------
(* app/auth.py: token resolution and the role gate *)

NoPayload == [ok |-> FALSE, hasSub |-> FALSE, sub |-> <<>>]

(* jwt.decode verifies the signature, then exp; every failure gives None *)
decode_token_noexp(token) ==
    IF ~token.sig THEN NoPayload
    ELSE [ok |-> TRUE, hasSub |-> token.hasSub, sub |-> token.sub]

decode_token(token) ==
    IF ~token.sig THEN NoPayload
    ELSE IF token.expired THEN NoPayload
    ELSE [ok |-> TRUE, hasSub |-> token.hasSub, sub |-> token.sub]

Gate(status, detail, user) == [status |-> status, detail |-> detail, user |-> user]

get_current_user_active(token) ==
    LET payload == decode_token(token)
        user_id == int(payload.sub)
    IN IF ~token.present
       THEN Gate(401, "Not authenticated - Missing Cookie", 0)
       ELSE IF ~payload.ok
       THEN Gate(401, "Session expired or invalid token", 0)
       ELSE IF ~payload.hasSub \/ payload.sub = <<>>
       THEN Gate(401, "Invalid token payload", 0)
       ELSE IF ~user_id.ok
       THEN Gate(401, "Invalid token payload", 0)
       ELSE IF user_id.value \notin DOMAIN users
       THEN Gate(401, "User not found", 0)
       ELSE IF users[user_id.value].status = "SUSPENDED"
       THEN Gate(401, "User not found", 0)
       ELSE Gate(200, "", user_id.value)

get_current_user(token) ==
    LET payload == decode_token(token)
        user_id == int(payload.sub)
    IN IF ~token.present
       THEN Gate(401, "Not authenticated - Missing Cookie", 0)
       ELSE IF ~payload.ok
       THEN Gate(401, "Session expired or invalid token", 0)
       ELSE IF ~payload.hasSub \/ payload.sub = <<>>
       THEN Gate(401, "Invalid token payload", 0)
       ELSE IF ~user_id.ok
       THEN Gate(401, "Invalid token payload", 0)
       ELSE IF user_id.value \notin DOMAIN users
       THEN Gate(401, "User not found", 0)
       ELSE Gate(200, "", user_id.value)

check_role_hier(allowed_roles, token) ==
    LET current_user == get_current_user(token)
    IN IF current_user.status # 200 THEN current_user
       ELSE IF users[current_user.user].role \notin allowed_roles
               /\ users[current_user.user].role # "ADMIN"
       THEN Gate(403, "Not enough permissions", current_user.user)
       ELSE current_user

check_role(allowed_roles, token) ==
    LET current_user == get_current_user(token)
    IN IF current_user.status # 200 THEN current_user
       ELSE IF users[current_user.user].role \notin allowed_roles
       THEN Gate(403, "Not enough permissions", current_user.user)
       ELSE current_user

(* The allow-set each endpoint passes to check_role *)
Allowed(op) ==
    CASE op = "create_pin" -> {"STUDENT"}
      [] op = "delete_pin" -> {"STUDENT"}
      [] op = "student_upload_file" -> {"STUDENT", "ADMIN"}
      [] op = "faculty_upload_file" -> {"FACULTY", "ADMIN"}
      [] op = "approve_file" -> {"ADMIN"}
      [] op = "deny_file" -> {"ADMIN"}
      [] op = "approve_account" -> {"ADMIN"}
      [] op = "remove_student" -> {"ADMIN"}
      [] op = "remove_faculty" -> {"ADMIN"}
      [] op = "deny_account" -> {"ADMIN"}
      [] op = "add_student" -> {"ADMIN"}
      [] op = "add_faculty" -> {"ADMIN"}
      [] op = "list_courses" -> {"ADMIN", "FACULTY", "STUDENT"}
      [] op = "list_pending_files" -> {"ADMIN"}

Resp(op, token, status, detail, user, arg) ==
    [NoResp EXCEPT !.op = op, !.token = token, !.status = status,
                   !.detail = detail, !.user = user, !.arg = arg]

(* The response of a request that the dependency rejected *)
Rejected(op, token, arg) ==
    LET g == check_role(Allowed(op), token)
    IN Resp(op, token, g.status, g.detail, g.user, arg)

Admitted(op, token) == check_role(Allowed(op), token).status = 200

Caller(op, token) == check_role(Allowed(op), token).user

----------------------------------------------------------------------------
(* routers/admin.py: account administration *)

(* POST /admin/accounts/{user_id}/approve *)
approve_account(token, user_id, lg) ==
    /\ UNCHANGED <<students, faculties, files, pins, notifs, disk, repo, now, hist, smart, procs>>
    /\ IF ~Admitted("approve_account", token) THEN
          /\ resp' = Rejected("approve_account", token, user_id)
          /\ UNCHANGED <<users, audit>>
       ELSE IF user_id \notin DOMAIN users THEN
          /\ resp' = Resp("approve_account", token, 404, "User not found",
                          Caller("approve_account", token), user_id)
          /\ UNCHANGED <<users, audit>>
       ELSE
          /\ users' = [users EXCEPT ![user_id].status = "ACTIVE"]
          /\ audit' = log_action(lg, "ADMIN_APPROVE_ACCOUNT",
                                  Caller("approve_account", token))
          /\ resp' = Logged(Resp("approve_account", token, 200,
                                 "Account approved safely.",
                                 Caller("approve_account", token), user_id), lg)

(* POST /admin/accounts/{user_id}/deny.  Line 423 evaluates Status.DENIED, *)
(* which the enum does not have: the attribute lookup raises               *)
(* AttributeError before the row is touched, and the request ends as an    *)
(* unhandled 500.                                                          *)
deny_account(token, user_id, lg) ==
    /\ UNCHANGED <<students, faculties, files, pins, notifs, disk, repo, now, hist, smart, procs>>
    /\ IF ~Admitted("deny_account", token) THEN
          /\ resp' = Rejected("deny_account", token, user_id)
          /\ UNCHANGED <<users, audit>>
       ELSE IF user_id \notin DOMAIN users THEN
          /\ resp' = Resp("deny_account", token, 404, "User not found",
                          Caller("deny_account", token), user_id)
          /\ UNCHANGED <<users, audit>>
       ELSE IF "DENIED" \notin Status THEN
          /\ resp' = Resp("deny_account", token, 500, "Internal Server Error",
                          Caller("deny_account", token), user_id)
          /\ UNCHANGED <<users, audit>>
       ELSE
          /\ users' = [users EXCEPT ![user_id].status = "DENIED"]
          /\ audit' = log_action(lg, "ADMIN_DENY_ACCOUNT",
                                  Caller("deny_account", token))
          /\ resp' = Logged(Resp("deny_account", token, 200,
                                 "Account denied.",
                                 Caller("deny_account", token), user_id), lg)

(* DELETE /admin/students/{student_id} *)
remove_student(token, student_id, lg) ==
    /\ UNCHANGED <<students, faculties, files, pins, notifs, disk, repo, now, hist, smart, procs>>
    /\ IF ~Admitted("remove_student", token) THEN
          /\ resp' = Rejected("remove_student", token, student_id)
          /\ UNCHANGED <<users, audit>>
       ELSE IF student_id \notin DOMAIN students THEN
          /\ resp' = Resp("remove_student", token, 404, "Student not found",
                          Caller("remove_student", token), student_id)
          /\ UNCHANGED <<users, audit>>
       ELSE
          /\ users' = IF students[student_id].user_id \in DOMAIN users
                      THEN [users EXCEPT
                              ![students[student_id].user_id].status = "SUSPENDED"]
                      ELSE users
          /\ audit' = log_action(lg, "ADMIN_REMOVE_STUDENT",
                                  Caller("remove_student", token))
          /\ resp' = Logged(Resp("remove_student", token, 200,
                                 "Student removed successfully",
                                 Caller("remove_student", token), student_id),
                            lg)

(* DELETE /admin/faculty/{faculty_id} *)
remove_faculty(token, faculty_id, lg) ==
    /\ UNCHANGED <<students, faculties, files, pins, notifs, disk, repo, now, hist, smart, procs>>
    /\ IF ~Admitted("remove_faculty", token) THEN
          /\ resp' = Rejected("remove_faculty", token, faculty_id)
          /\ UNCHANGED <<users, audit>>
       ELSE IF faculty_id \notin DOMAIN faculties THEN
          /\ resp' = Resp("remove_faculty", token, 404, "Faculty not found",
                          Caller("remove_faculty", token), faculty_id)
          /\ UNCHANGED <<users, audit>>
       ELSE
          /\ users' = IF faculties[faculty_id].user_id \in DOMAIN users
                      THEN [users EXCEPT
                              ![faculties[faculty_id].user_id].status = "SUSPENDED"]
                      ELSE users
          /\ audit' = log_action(lg, "ADMIN_REMOVE_FACULTY",
                                  Caller("remove_faculty", token))
          /\ resp' = Logged(Resp("remove_faculty", token, 200,
                                 "Faculty removed successfully",
                                 Caller("remove_faculty", token), faculty_id),
                            lg)

----------------------------------------------------------------------------
(* routers/student.py: personal pins *)

PinById_deleted(pin_id) == IF pin_id \in DOMAIN pins THEN pin_id ELSE 0

(* session.get(StudentPin, pin_id): 0 when the row is absent or deleted *)
PinById(pin_id) ==
    IF pin_id \in DOMAIN pins /\ ~pins[pin_id].deleted THEN pin_id ELSE 0

(* POST /student/pins ; date_ok: the due_date string parses *)
create_pin(token, date_ok, lg) ==
    LET caller == Caller("create_pin", token)
        student == StudentOf(caller)
    IN
    /\ Len(pins) < MaxPins
    /\ UNCHANGED <<users, students, faculties, files, notifs, disk, repo, now, hist, smart, procs>>
    /\ IF ~Admitted("create_pin", token) THEN
          /\ resp' = Rejected("create_pin", token, 0)
          /\ UNCHANGED <<pins, audit>>
       ELSE IF student = 0 THEN
          /\ resp' = Resp("create_pin", token, 404,
                          "Student profile not found.", caller, 0)
          /\ UNCHANGED <<pins, audit>>
       ELSE IF ~date_ok THEN
          /\ resp' = Resp("create_pin", token, 400, "Invalid date format",
                          caller, 0)
          /\ UNCHANGED <<pins, audit>>
       ELSE
          /\ pins' = Append(pins, [student_id |-> student, deleted |-> FALSE])
          /\ audit' = log_action(lg, "CREATE_PIN", caller)
          /\ resp' = Logged(Resp("create_pin", token, 200,
                                 "Personal pin added", caller, Len(pins) + 1),
                            lg)

DeletePinRow_lost(pin_id, lg) ==
    IF lg = "failed" THEN pins ELSE [pins EXCEPT ![pin_id].deleted = TRUE]

(* session.delete(pin); session.commit() (lines 185-186): the failed       *)
(* commit inside log_action rolled its own transaction back, the session   *)
(* begins a new one for the delete                                         *)
DeletePinRow(pin_id, lg) == [pins EXCEPT ![pin_id].deleted = TRUE]

(* DELETE /student/pins/{pin_id} *)
delete_pin(token, pin_id, lg) ==
    LET caller == Caller("delete_pin", token)
        student == StudentOf(caller)
    IN
    /\ UNCHANGED <<users, students, faculties, files, notifs, disk, repo, now, hist, smart, procs>>
    /\ IF ~Admitted("delete_pin", token) THEN
          /\ resp' = Rejected("delete_pin", token, pin_id)
          /\ UNCHANGED <<pins, audit>>
       ELSE IF PinById(pin_id) = 0 THEN
          /\ resp' = Resp("delete_pin", token, 404, "Pin not found",
                          caller, pin_id)
          /\ UNCHANGED <<pins, audit>>
       ELSE IF student = 0 THEN
          \* student is None: student.id raises AttributeError
          /\ resp' = Resp("delete_pin", token, 500, "Internal Server Error",
                          caller, pin_id)
          /\ UNCHANGED <<pins, audit>>
       ELSE IF pins[pin_id].student_id # student THEN
          /\ resp' = Resp("delete_pin", token, 403, "Unauthorized",
                          caller, pin_id)
          /\ UNCHANGED <<pins, audit>>
       ELSE
          \* log_action comes first (lines 181-183), then the delete and
          \* its commit (lines 185-186)
          /\ audit' = log_action(lg, "DELETE_PIN", caller)
          /\ pins' = DeletePinRow(pin_id, lg)
          /\ resp' = Logged(Resp("delete_pin", token, 200, "", caller, pin_id),
                            lg)

----------------------------------------------------------------------------
(* File intake: routers/faculty.py, routers/student.py, routers/admin.py   *)

(* The seeded Course table; faculty_id 0 is None *)
Courses == << [code |-> "CS601", faculty_id |-> 1],
              [code |-> "MA101", faculty_id |-> 0] >>

(* select(Course).where(Course.code == code).first() : 0 when no row *)
CourseByCode(code) ==
    IF \E i \in DOMAIN Courses : Courses[i].code = code
    THEN CHOOSE i \in DOMAIN Courses :
            /\ Courses[i].code = code
            /\ \A j \in DOMAIN Courses : Courses[j].code = code => i <= j
    ELSE 0

(* os.path.join("uploads", semester, subject_code, f"unit_{unit}", name) *)
UploadPath(semester, subject_code, unit, filename) ==
    <<"uploads", semester, subject_code, "unit_", unit, filename>>

(* f"uploads/temp_st_{file.filename}" *)
TempPath(filename) == <<"uploads", "temp_st_", filename>>

Exists(path) == \E e \in disk : e.path = path

WriteFile_keep(d, path, bytes) ==
    IF \E e \in d : e.path = path THEN d
    ELSE d \cup {[path |-> path, bytes |-> bytes]}

(* open(path, "wb") + copyfileobj: the file at path now holds bytes *)
WriteFile(d, path, bytes) ==
    {e \in d : e.path # path} \cup {[path |-> path, bytes |-> bytes]}

(* os.replace(src, dst) *)
ReplaceFile(d, src, dst) ==
    LET bytes == (CHOOSE e \in d : e.path = src).bytes
    IN WriteFile({e \in d : e.path # src}, dst, bytes)

UploadedFile(filename, file_path, subject_code, unit, semester, by_id, by_role, status) ==
    [filename |-> filename, file_path |-> file_path,
     subject_code |-> subject_code, unit |-> unit, semester |-> semester,
     uploaded_by_id |-> by_id, uploaded_by_role |-> by_role,
     status |-> status]

(* The row faculty_upload_file adds (faculty.py lines 225-234) *)
FacultyRow(filename, file_path, subject_code, unit, semester, uid) ==
    UploadedFile(filename, file_path, subject_code, unit, semester, uid,
                 "FACULTY", "APPROVED")

(* The row student_upload_file adds (student.py lines 227-236) *)
StudentRow_admin(filename, file_path, subject_code, unit, semester, uid) ==
    UploadedFile(filename, file_path, subject_code, unit, semester, uid,
                 "STUDENT",
                 IF users[uid].role = "ADMIN" THEN "APPROVED" ELSE "PENDING")

StudentRow(filename, file_path, subject_code, unit, semester, uid) ==
    UploadedFile(filename, file_path, subject_code, unit, semester, uid,
                 "STUDENT", "PENDING")

(* POST /faculty/upload-file *)
faculty_upload_file(token, filename, bytes, subject_code, unit, semester, lg) ==
    LET caller == Caller("faculty_upload_file", token)
        faculty == FacultyOf(caller)
        file_path == UploadPath(semester, subject_code, unit, filename)
    IN
    /\ UNCHANGED <<users, students, faculties, pins, repo, now, hist, smart, procs>>
    /\ IF ~Admitted("faculty_upload_file", token) THEN
          /\ resp' = Rejected("faculty_upload_file", token, 0)
          /\ UNCHANGED <<files, notifs, disk, audit>>
       ELSE IF faculty = 0 THEN
          /\ resp' = Resp("faculty_upload_file", token, 404,
                          "Faculty profile not found.", caller, 0)
          /\ UNCHANGED <<files, notifs, disk, audit>>
       ELSE
          /\ disk' = WriteFile(disk, file_path, bytes)
          /\ files' = Append(files, FacultyRow(filename, file_path,
                                 subject_code, unit, semester, caller))
          /\ notifs' = IF CourseByCode(subject_code) # 0
                       THEN Append(notifs, [notif_type |-> "SENT",
                                            sender_id |-> faculty])
                       ELSE notifs
          /\ audit' = log_action(lg, "UPLOAD_FILE_AUTO_APPROVED", caller)
          /\ resp' = [Resp("faculty_upload_file", token, 200,
                           "uploaded and auto-approved", caller, Len(files) + 1)
                       EXCEPT !.logged = lg, !.data = <<filename, bytes>>]

(* What POST /api/classify-only gave: the call raised or was not OK        *)
(* (ok = FALSE), or a JSON object; a key it lacks is "".                   *)
ClassifierResults ==
    { [ok |-> FALSE, subject_code |-> "", semester |-> "", unit |-> ""],
      [ok |-> TRUE, subject_code |-> "CS601", semester |-> "6", unit |-> "2"],
      [ok |-> TRUE, subject_code |-> "MA101", semester |-> "", unit |-> ""],
      [ok |-> TRUE, subject_code |-> "", semester |-> "4", unit |-> "1"] }

MetaGet_blank(meta, value, default) ==
    IF meta.ok THEN (IF value # "" THEN value ELSE default) ELSE value

(* The placeholder assigned at line 207 stays unless the post returned OK  *)
(* and meta.get(key, default) found the key (lines 214-218)                *)
MetaGet(meta, value, default) ==
    IF meta.ok /\ value # "" THEN value ELSE default

(* Whether the try block of lines 210-220 got metadata (history only) *)
Classified(meta) == IF meta.ok THEN "classified" ELSE "classifier_failed"

(* POST /student/upload-file *)
student_upload_file(token, filename, bytes, meta, lg) ==
    LET caller == Caller("student_upload_file", token)
        student == StudentOf(caller)
        subject_code == MetaGet(meta, meta.subject_code, "UNKNOWN")
        semester == MetaGet(meta, meta.semester, "6")
        unit == MetaGet(meta, meta.unit, "1")
        file_path == UploadPath(semester, subject_code, unit, filename)
        course == CourseByCode(subject_code)
        notify == course # 0 /\ Courses[course].faculty_id # 0
    IN
    /\ UNCHANGED <<users, students, faculties, pins, repo, now, hist, smart, procs>>
    /\ IF ~Admitted("student_upload_file", token) THEN
          /\ resp' = Rejected("student_upload_file", token, 0)
          /\ UNCHANGED <<files, notifs, disk, audit>>
       ELSE IF student = 0 /\ users[caller].role = "STUDENT" THEN
          /\ resp' = Resp("student_upload_file", token, 404,
                          "Student profile not found.", caller, 0)
          /\ UNCHANGED <<files, notifs, disk, audit>>
       ELSE
          /\ disk' = ReplaceFile(WriteFile(disk, TempPath(filename), bytes),
                                 TempPath(filename), file_path)
          /\ files' = Append(files, StudentRow(filename, file_path,
                                 subject_code, unit, semester, caller))
          /\ IF notify /\ student = 0 THEN
                \* student is None: student.name raises AttributeError
                \* after the row was committed
                /\ UNCHANGED <<notifs, audit>>
                /\ resp' = [Resp("student_upload_file", token, 500,
                                 "Internal Server Error", caller,
                                 Len(files) + 1)
                             EXCEPT !.ext = Classified(meta),
                                    !.data = <<filename, bytes>>]
             ELSE
                /\ notifs' = IF notify
                             THEN Append(notifs, [notif_type |-> "HOD",
                                    sender_id |-> Courses[course].faculty_id])
                             ELSE notifs
                /\ audit' = log_action(lg, "UPLOAD_FILE_PENDING", caller)
                /\ resp' = [Resp("student_upload_file", token, 200,
                                 "uploaded, pending HOD approval", caller,
                                 Len(files) + 1)
                             EXCEPT !.ext = Classified(meta), !.logged = lg,
                                    !.data = <<filename, bytes>>]

(* Outcomes of requests.post to the smart repository *)
RagOutcomes == {"ok", "not_ok", "raise"}

(* What became of the re-submission (admin.py lines 470-484): skipped when *)
(* os.path.exists(f.file_path) is false, else the outcome of the post      *)
Ingest(f, rag) == IF Exists(f.file_path) THEN rag ELSE "skipped"

ApprovedStatus_ingested(f, ingest) ==
    IF ingest = "ok" THEN "APPROVED" ELSE f.status

(* f.status = FileStatus.APPROVED (line 486), reached on every outcome of  *)
(* the try block, whose except clause swallows the exception               *)
ApprovedStatus(f, ingest) == "APPROVED"

(* POST /admin/files/{file_id}/approve *)
approve_file(token, file_id, rag, lg) ==
    LET caller == Caller("approve_file", token)
        f == files[file_id]
    IN
    /\ UNCHANGED <<users, students, faculties, pins, notifs, disk, now, hist, smart, procs>>
    /\ IF ~Admitted("approve_file", token) THEN
          /\ resp' = Rejected("approve_file", token, file_id)
          /\ UNCHANGED <<files, repo, audit>>
       ELSE IF file_id \notin DOMAIN files THEN
          /\ resp' = Resp("approve_file", token, 404, "File not found",
                          caller, file_id)
          /\ UNCHANGED <<files, repo, audit>>
       ELSE
          /\ repo' = IF Ingest(f, rag) = "ok"
                     THEN repo \cup {[filename |-> f.filename, role |-> "faculty",
                                      owner_id |-> f.uploaded_by_id]}
                     ELSE repo
          /\ files' = [files EXCEPT ![file_id].status =
                                       ApprovedStatus(f, Ingest(f, rag))]
          /\ audit' = log_action(lg, "APPROVE_FILE", caller)
          /\ resp' = [Resp("approve_file", token, 200, "", caller, file_id)
                       EXCEPT !.ext = Ingest(f, rag), !.logged = lg,
                              !.before.status = f.status]

DeniedStatus_toggle(f) == IF f.status = "DENIED" THEN "PENDING" ELSE "DENIED"

(* f.status = FileStatus.DENIED (line 501) *)
DeniedStatus(f) == "DENIED"

(* POST /admin/files/{file_id}/deny *)
deny_file(token, file_id, lg) ==
    LET caller == Caller("deny_file", token)
    IN
    /\ UNCHANGED <<users, students, faculties, pins, notifs, disk, repo, now, hist, smart, procs>>
    /\ IF ~Admitted("deny_file", token) THEN
          /\ resp' = Rejected("deny_file", token, file_id)
          /\ UNCHANGED <<files, audit>>
       ELSE IF file_id \notin DOMAIN files THEN
          /\ resp' = Resp("deny_file", token, 404, "File not found",
                          caller, file_id)
          /\ UNCHANGED <<files, audit>>
       ELSE
          /\ files' = [files EXCEPT ![file_id].status =
                                       DeniedStatus(files[file_id])]
          /\ audit' = log_action(lg, "DENY_FILE", caller)
          /\ resp' = [Resp("deny_file", token, 200, "", caller, file_id)
                       EXCEPT !.before.status = files[file_id].status,
                              !.logged = lg]

(* The uploads directory is an ordinary directory: a stored file can be    *)
(* removed from it behind the portal's back, which is the case the         *)
(* os.path.exists test of approve_file (admin.py line 472) is there for    *)
RemoveStoredFile(path) ==
    /\ Exists(path)
    /\ disk' = {e \in disk : e.path # path}
    /\ UNCHANGED <<users, students, faculties, files, pins, notifs, repo,
                   now, resp, hist, audit, smart, procs>>

----------------------------------------------------------------------------
(* Read-only listings *)

RECURSIVE PendingFrom(_)
(* select(UploadedFile, User).join(User).where(status == PENDING): the ids *)
(* from i on, in id order                                                  *)
PendingFrom(i) ==
    IF i > Len(files) THEN << >>
    ELSE IF files[i].status = "PENDING" /\ files[i].uploaded_by_id \in DOMAIN users
    THEN <<i>> \o PendingFrom(i + 1)
    ELSE PendingFrom(i + 1)

(* GET /admin/courses *)
list_courses(token) ==
    /\ UNCHANGED <<users, students, faculties, files, pins, notifs, disk,
                   repo, now, hist, audit, smart, procs>>
    /\ IF ~Admitted("list_courses", token)
       THEN resp' = Rejected("list_courses", token, 0)
       ELSE resp' = [Resp("list_courses", token, 200, "",
                          Caller("list_courses", token), 0)
                       EXCEPT !.data = [i \in DOMAIN Courses |-> Courses[i].code]]

(* GET /admin/pending-files *)
list_pending_files(token) ==
    /\ UNCHANGED <<users, students, faculties, files, pins, notifs, disk,
                   repo, now, hist, audit, smart, procs>>
    /\ IF ~Admitted("list_pending_files", token)
       THEN resp' = Rejected("list_pending_files", token, 0)
       ELSE resp' = [Resp("list_pending_files", token, 200, "",
                          Caller("list_pending_files", token), 0)
                       EXCEPT !.data = PendingFrom(1)]

----------------------------------------------------------------------------
(* The database after registration and seeding: a student account that has *)
(* registered and waits for approval, a faculty account and an admin (HOD) *)
(* account.                                                                *)

Init ==
    /\ users = << NewUser("student@university.edu", get_password_hash("pw1"),
                          "STUDENT", "PENDING"),
                  NewUser("faculty@university.edu", get_password_hash("pw1"),
                          "FACULTY", "ACTIVE"),
                  NewUser("admin@university.edu", get_password_hash("pw2"),
                          "ADMIN", "ACTIVE") >>
    /\ students = << [user_id |-> 1] >>
    /\ faculties = << [user_id |-> 2] >>
    /\ files = << >>
    /\ pins = << >>
    /\ notifs = << >>
    /\ disk = {}
    /\ repo = {}
    /\ now = 0
    /\ resp = NoResp
    /\ hist = [i \in 1..3 |-> NoHist]
    /\ audit = << >>
    /\ repository_files = << >>
    /\ doc_chunks = << >>
    /\ section = NoSection
    /\ chunks = << >>
    /\ procs = << >>

(* Cookies a browser holds after a login of one of the accounts *)
SessionTokens == {create_access_token(str(i)) : i \in DOMAIN users}

ApproveAccountStep ==
    \E token \in SessionTokens, user_id \in 1..(Len(users) + 1) :
        approve_account(token, user_id, "written")

RemoveStudentStep ==
    \E token \in SessionTokens, student_id \in 1..(Len(students) + 1) :
        remove_student(token, student_id, "written")

NextLogin == LoginStep \/ ApproveAccountStep \/ RemoveStudentStep

SpecLogin == Init /\ [][NextLogin]_vars

(* The portal under requests of logged-in browsers and of requests without *)
(* a cookie.  The HOD may also have a Faculty profile (admin.py line 316   *)
(* looks one up for the admin).                                            *)
InitPortal ==
    /\ users = << NewUser("student@university.edu", get_password_hash("pw1"),
                          "STUDENT", "ACTIVE"),
                  NewUser("faculty@university.edu", get_password_hash("pw1"),
                          "FACULTY", "ACTIVE"),
                  NewUser("admin@university.edu", get_password_hash("pw2"),
                          "ADMIN", "ACTIVE"),
                  NewUser("student2@university.edu", get_password_hash("pw2"),
                          "STUDENT", "ACTIVE") >>
    /\ students = << [user_id |-> 1], [user_id |-> 4] >>
    /\ faculties \in { << [user_id |-> 2] >>,
                       << [user_id |-> 2], [user_id |-> 3] >> }
    /\ files = << >>
    /\ pins = << >>
    /\ notifs = << >>
    /\ disk = {}
    /\ repo = {}
    /\ now = 0
    /\ resp = NoResp
    /\ hist = [i \in 1..4 |-> NoHist]
    /\ audit = << >>
    /\ repository_files = << >>
    /\ doc_chunks = << >>
    /\ section = NoSection
    /\ chunks = << >>
    /\ procs = << >>

(* Cookies of the browsers that upload and moderate files: the student,   *)
(* the faculty member and the HOD                                          *)
FileTokens == {create_access_token(str(i)) : i \in 1..3}

Filenames == {"notes.pdf"}
Contents == {"b1"}
SubjectCodes == {"CS601", "XX999"}

FacultyUploadStep ==
    \E token \in FileTokens, filename \in Filenames, bytes \in Contents,
       subject_code \in SubjectCodes :
        /\ Len(files) < MaxFiles
        /\ faculty_upload_file(token, filename, bytes, subject_code, "1", "6",
                               "written")

StudentUploadStep ==
    \E token \in FileTokens, filename \in Filenames, bytes \in Contents,
       meta \in ClassifierResults :
        /\ Len(files) < MaxFiles
        /\ student_upload_file(token, filename, bytes, meta, "written")

ApproveFileStep ==
    \E token \in FileTokens, file_id \in 1..(Len(files) + 1),
       rag \in RagOutcomes :
        approve_file(token, file_id, rag, "written")

DenyFileStep ==
    \E token \in FileTokens, file_id \in 1..(Len(files) + 1) :
        deny_file(token, file_id, "written")


NextFiles ==
    \/ FacultyUploadStep \/ StudentUploadStep
    \/ ApproveFileStep \/ DenyFileStep

SpecFiles == InitPortal /\ [][NextFiles]_vars

(* The approval of student uploads while stored files come and go: one     *)
(* student uploads, the HOD approves, the uploads directory loses files    *)
StorageUploadStep ==
    \E filename \in Filenames, bytes \in Contents, meta \in ClassifierResults :
        /\ Len(files) < MaxFiles
        /\ student_upload_file(create_access_token(str(1)), filename, bytes,
                               meta, "written")

StorageApproveStep ==
    \E file_id \in 1..(Len(files) + 1), rag \in RagOutcomes,
       lg \in AuditOutcomes :
        approve_file(create_access_token(str(3)), file_id, rag, lg)

RemoveStoredFileStep == \E e \in disk : RemoveStoredFile(e.path)

NextStorage ==
    StorageUploadStep \/ StorageApproveStep \/ RemoveStoredFileStep

SpecStorage == InitPortal /\ [][NextStorage]_vars

(* Uploads that meet in one directory: the student and the faculty member  *)
(* send notes.pdf with different bytes; the classifier files the student's *)
(* upload under 6/CS601/unit_2 or fails (6/UNKNOWN/unit_1)                 *)
MaxUploads == 2

CollideContents == {"b1", "b2"}

CollideFacultyStep ==
    \E bytes \in CollideContents, subject_code \in {"CS601", "UNKNOWN"},
       unit \in {"1", "2"} :
        /\ Len(files) < MaxUploads
        /\ faculty_upload_file(create_access_token(str(2)), "notes.pdf",
                               bytes, subject_code, unit, "6", "written")

CollideStudentStep ==
    \E bytes \in CollideContents,
       meta \in {m \in ClassifierResults : m.unit \in {"", "2"}} :
        /\ Len(files) < MaxUploads
        /\ student_upload_file(create_access_token(str(1)), "notes.pdf",
                               bytes, meta, "written")

NextCollide == CollideFacultyStep \/ CollideStudentStep

SpecCollide == InitPortal /\ [][NextCollide]_vars

(* Any access_token cookie a client can send: absent, forged, expired,     *)
(* without sub, or with any short string as sub                            *)
SubAlphabet == {"1", "3", "0", "a", " ", "-"}

SubStrings == UNION {[1..n -> SubAlphabet] : n \in 0..MaxSubLen}

AllTokens ==
    {NoCookie} \cup
    {[present |-> TRUE, sig |-> sig, expired |-> expired, hasSub |-> TRUE,
      sub |-> sub, kind |-> "access"] :
        sig \in BOOLEAN, expired \in BOOLEAN, sub \in SubStrings} \cup
    {[present |-> TRUE, sig |-> sig, expired |-> expired, hasSub |-> FALSE,
      sub |-> << >>, kind |-> "access"] :
        sig \in BOOLEAN, expired \in BOOLEAN}

ListCoursesStep == \E token \in AllTokens : list_courses(token)

ListPendingFilesStep == \E token \in AllTokens : list_pending_files(token)

NextAccess == ListCoursesStep \/ ListPendingFilesStep

SpecAccess == InitPortal /\ [][NextAccess]_vars

(* Pins and listings under the cookies of the four accounts *)
PortalTokens == SessionTokens \cup {NoCookie}

CreatePinStep ==
    \E token \in PortalTokens, date_ok \in BOOLEAN, lg \in AuditOutcomes :
        create_pin(token, date_ok, lg)

DeletePinStep ==
    \E token \in PortalTokens, pin_id \in 1..(Len(pins) + 1),
       lg \in AuditOutcomes :
        delete_pin(token, pin_id, lg)

SessionListCoursesStep == \E token \in PortalTokens : list_courses(token)

SessionListPendingFilesStep ==
    \E token \in PortalTokens : list_pending_files(token)

NextPins ==
    \/ CreatePinStep \/ DeletePinStep
    \/ SessionListCoursesStep \/ SessionListPendingFilesStep

SpecPins == InitPortal /\ [][NextPins]_vars

----------------------------------------------------------------------------
(* services/document_rag_service.py: the type-aware text splitters.        *)
(* split_text hands the text to a RecursiveCharacterTextSplitter           *)
(* (langchain_text_splitters) built with chunk_size and chunk_overlap      *)
(* only, so with the library defaults: separators "\n\n", "\n", " ", "",   *)
(* keep_separator = True, strip_whitespace = True, length_function = len.  *)
(* A text is a sequence of one-character strings.  With keep_separator     *)
(* every split, and so every chunk, is a contiguous stretch of the text;   *)
(* a stretch is written <<lo, hi>> (positions 1..Len(text), hi = lo - 1    *)
(* when empty).                                                            *)

DenseSize == 500
DenseOverlap == 100
SlideSize == 800
SlideOverlap == 50
PlainSize == 1000
PlainOverlap == 150

(* _SPLITTER_MAP and _get_splitter: .get(file_type, _splitter_dense) *)
_get_splitter(file_type) ==
    CASE file_type \in {"pdf", "docx", "png", "jpg", "jpeg"} ->
            [chunk_size |-> DenseSize, chunk_overlap |-> DenseOverlap]
      [] file_type = "pptx" ->
            [chunk_size |-> SlideSize, chunk_overlap |-> SlideOverlap]
      [] file_type \in {"txt", "csv"} ->
            [chunk_size |-> PlainSize, chunk_overlap |-> PlainOverlap]
      [] OTHER -> [chunk_size |-> DenseSize, chunk_overlap |-> DenseOverlap]

(* The default separators of RecursiveCharacterTextSplitter *)
Separators == << <<"\n", "\n">>, <<"\n">>, <<" ">>, << >> >>

IsSpace(c) == c \in {" ", "\n", "\t"}

SpanLen_short(r) == r[2] - r[1]

SpanLen(r) == r[2] - r[1] + 1

(* str.strip() applied to the stretch lo..hi *)
Strip(text, lo, hi) ==
    IF \A i \in lo..hi : IsSpace(text[i]) THEN <<lo, lo - 1>>
    ELSE << CHOOSE i \in lo..hi :
               ~IsSpace(text[i]) /\ \A j \in lo..(i - 1) : IsSpace(text[j]),
            CHOOSE i \in lo..hi :
               ~IsSpace(text[i]) /\ \A j \in (i + 1)..hi : IsSpace(text[j]) >>

(* The start positions of the matches re.split finds for the separator in  *)
(* lo..hi: leftmost first, not overlapping.  Every separator is one        *)
(* character repeated, so inside a run of that character the matches start *)
(* at the run's start and then every Len(sep) positions.                   *)
Matches(text, lo, hi, sep) ==
    LET c == sep[1]
        L == Len(sep)
        RunStart(p) == CHOOSE r \in lo..p :
                          /\ \A k \in r..p : text[k] = c
                          /\ r = lo \/ text[r - 1] # c
    IN { p \in lo..(hi - L + 1) :
            /\ \A k \in 0..(L - 1) : text[p + k] = c
            /\ (p - RunStart(p)) % L = 0 }

(* sorted(S) for a finite set of integers *)
Sorted(S) ==
    [k \in 1..Cardinality(S) |->
        CHOOSE p \in S : Cardinality({q \in S : q < p}) = k - 1]

(* _split_text_with_regex(text, separator, keep_separator = True): the     *)
(* text before the first match, then one split per match that starts with  *)
(* the separator; empty splits are dropped.  For the separator "" the      *)
(* splits are the characters, list(text).                                  *)
_split_text_with_regex(text, lo, hi, sep) ==
    IF sep = << >>
    THEN [i \in 1..(hi - lo + 1) |-> <<lo + i - 1, lo + i - 1>>]
    ELSE LET M == Matches(text, lo, hi, sep)
             starts == Sorted(IF lo <= hi THEN M \cup {lo} ELSE M)
         IN [k \in 1..Len(starts) |->
               << starts[k],
                  IF k < Len(starts) THEN starts[k + 1] - 1 ELSE hi >>]

(* _join_docs(current_doc, ""): the splits first..last joined and stripped *)
_join_docs(text, splits, first, last) ==
    IF first > last THEN <<1, 0>>
    ELSE Strip(text, splits[first][1], splits[last][2])

(* One round of the for loop of _merge_splits, for the split number j.     *)
(* current_doc is splits[st.first .. j - 1] and st.total its length; the   *)
(* while loop drops splits from the front of current_doc until the rest is *)
(* no longer than chunk_overlap and leaves room for the split j.           *)
MergeStep(text, splits, j, st, sp) ==
    LET len == SpanLen(splits[j])
        Total(p) == IF st.first + p > j - 1 THEN 0
                    ELSE splits[j - 1][2] - splits[st.first + p][1] + 1
        Again(p) == \/ Total(p) > sp.chunk_overlap
                    \/ (Total(p) + len > sp.chunk_size /\ Total(p) > 0)
        drop == CHOOSE p \in 0..(j - st.first) :
                    ~Again(p) /\ \A q \in 0..(p - 1) : Again(q)
        doc == _join_docs(text, splits, st.first, j - 1)
    IN IF st.total + len > sp.chunk_size /\ st.first <= j - 1
       THEN [docs |-> IF SpanLen(doc) > 0 THEN Append(st.docs, doc)
                      ELSE st.docs,
             first |-> st.first + drop,
             total |-> Total(drop) + len]
       ELSE [st EXCEPT !.total = @ + len]

(* The for loop of _merge_splits over the splits j..last.  The rounds are  *)
(* taken in runs of `stride` rounds, a run in runs of stride / 16 rounds,  *)
(* which changes nothing but the nesting depth of the evaluation.          *)
RECURSIVE MergeRounds(_, _, _, _, _, _, _)
MergeRounds(text, splits, j, last, stride, st, sp) ==
    IF j > last THEN st
    ELSE LET upto == IF j + stride - 1 < last THEN j + stride - 1 ELSE last
             st2 == IF stride = 1 THEN MergeStep(text, splits, j, st, sp)
                    ELSE MergeRounds(text, splits, j, upto, stride \div 16,
                                     st, sp)
         IN IF st2.total >= 0
            THEN MergeRounds(text, splits, upto + 1, last, stride, st2, sp)
            ELSE st2

(* _merge_splits(splits[from..to], ""), as stretches of the text *)
_merge_splits(text, splits, from, to, sp) ==
    LET st == MergeRounds(text, splits, from, to, 256,
                          [docs |-> << >>, first |-> from, total |-> 0], sp)
        doc == _join_docs(text, splits, st.first, to)
    IN IF SpanLen(doc) > 0 THEN Append(st.docs, doc) ELSE st.docs

RECURSIVE _split_text(_, _, _, _, _)
RECURSIVE SplitLoop(_, _, _, _, _, _)

(* The for loop of _split_text from the split number i on: the splits      *)
(* shorter than chunk_size up to the next long one are merged, the long    *)
(* one is split again with the separators that are left (or kept whole     *)
(* when none is left).                                                     *)
SplitLoop(text, splits, i, new_separators, final_chunks, sp) ==
    LET n == Len(splits)
        Long(j) == SpanLen(splits[j]) >= sp.chunk_size
        big == IF \E j \in i..n : Long(j)
               THEN CHOOSE j \in i..n : Long(j) /\ \A q \in i..(j - 1) : ~Long(q)
               ELSE n + 1
        merged == IF i <= big - 1
                  THEN _merge_splits(text, splits, i, big - 1, sp)
                  ELSE << >>
    IN IF i > n THEN final_chunks
       ELSE IF big > n THEN final_chunks \o merged
       ELSE SplitLoop(text, splits, big + 1, new_separators,
                final_chunks \o merged \o
                  (IF new_separators = 0 THEN << splits[big] >>
                   ELSE _split_text(text, splits[big][1], splits[big][2],
                                    new_separators, sp)),
                sp)

(* RecursiveCharacterTextSplitter._split_text on the stretch lo..hi with   *)
(* the separators from number k on; new_separators = 0 stands for []       *)
_split_text(text, lo, hi, k, sp) ==
    LET i == CHOOSE i \in k..Len(Separators) :
                /\ Separators[i] = << >>
                   \/ Matches(text, lo, hi, Separators[i]) # {}
                /\ \A q \in k..(i - 1) :
                      /\ Separators[q] # << >>
                      /\ Matches(text, lo, hi, Separators[q]) = {}
        separator == Separators[i]
        new_separators == IF separator = << >> THEN 0 ELSE i + 1
        splits == _split_text_with_regex(text, lo, hi, separator)
    IN SplitLoop(text, splits, 1, new_separators, << >>, sp)

(* split_text(text, file_type): the chunks, as stretches of the text *)
split_text(text, file_type) ==
    _split_text(text, 1, Len(text), 1, _get_splitter(file_type))

(* The characters of a chunk *)
Content(text, chunk) == SubSeq(text, chunk[1], chunk[2])

----------------------------------------------------------------------------
(* The smart repository service: routes/upload.py with                     *)
(* services/document_processor.py, ai_classifier.py, moderation_service.py *)
(* and the chunk writers of document_rag_service.py.                       *)
(* A filename is the sequence of its dot-separated parts, a file's bytes   *)
(* are described by the text they hold: [shape, n] is a text of n          *)
(* characters, n = 0 being the 0-byte file.                                *)

Letters == <<"a", "b", "c", "d", "e">>

TextOf(d) ==
    [i \in 1..d.n |->
        CASE d.shape = "blank" -> " "
          [] d.shape = "spaced" /\ i = (d.n + 1) \div 2 -> " "
          [] d.shape = "lead" /\ i = 1 -> " "
          [] d.shape = "lines" /\ i % 7 = 0 -> "\n"
          [] OTHER -> Letters[(i % Len(Letters)) + 1]]

(* str.lower() on the extensions that occur *)
Lower(s) == CASE s = "TXT" -> "txt" [] s = "PDF" -> "pdf" [] OTHER -> s

SUPPORTED_EXTENSIONS ==
    {"pdf", "docx", "pptx", "png", "jpg", "jpeg", "txt", "csv"}

(* os.path.splitext(name)[1].lower(), without the dot; "" when no dot *)
Ext(filename) ==
    IF Len(filename) >= 2 THEN Lower(filename[Len(filename)]) ELSE ""

is_supported(filename) == Ext(filename) \in SUPPORTED_EXTENSIONS

(* file.filename.split(".")[-1].lower() *)
FileType(filename) == Lower(filename[Len(filename)])

(* extract_text_universal: txt and csv are read as they are; the other     *)
(* supported types go through a parser library (fitz, python-docx,         *)
(* python-pptx, pytesseract), which gives the text or raises on bytes it   *)
(* cannot read (file.parsed); any other extension gives "".                *)
extract_text_universal(file) ==
    IF Ext(file.filename) \in {"txt", "csv"}
    THEN [ok |-> TRUE, text |-> TextOf(file.bytes)]
    ELSE IF is_supported(file.filename)
    THEN [ok |-> file.parsed,
          text |-> IF file.parsed THEN TextOf(file.bytes) ELSE << >>]
    ELSE [ok |-> TRUE, text |-> << >>]

(* text.strip() == "" *)
Blank(text) == SpanLen(Strip(text, 1, Len(text))) <= 0

(* content.strip() *)
Stripped(text) ==
    LET r == Strip(text, 1, Len(text)) IN SubSeq(text, r[1], r[2])

(* extract_text_with_structure, for a document of one page / slide /       *)
(* heading-less body: pdf and pptx drop a blank page, the other types      *)
(* return their one section also when it is empty                          *)
extract_text_with_structure(file) ==
    LET ext == Ext(file.filename)
        text == extract_text_universal(file).text
    IN CASE ext = "pdf" ->
              IF Blank(text) THEN << >>
              ELSE << [section |-> "page_1", content |-> Stripped(text)] >>
         [] ext = "pptx" ->
              IF Blank(text) THEN << >>
              ELSE << [section |-> "slide_1", content |-> text] >>
         [] ext = "docx" -> << [section |-> "full_text", content |-> text] >>
         [] ext \in {"png", "jpg", "jpeg"} ->
              << [section |-> "image", content |-> text] >>
         [] ext = "txt" -> << [section |-> "full_text", content |-> text] >>
         [] ext = "csv" -> << [section |-> "csv_data", content |-> text] >>
         [] OTHER -> << >>

(* What classify_text came to: the call to the LLM or json.loads raised,   *)
(* or the JSON object the model answered with (a key it lacks is "")       *)
ClassifyOutcomes ==
    { [ok |-> FALSE, subject_code |-> "", semester |-> "", unit |-> ""],
      [ok |-> TRUE, subject_code |-> "CS601", semester |-> "6", unit |-> "2"],
      [ok |-> TRUE, subject_code |-> "CS601", semester |-> "", unit |-> ""] }

(* The metadata upload_multiple_files falls back to (lines 190-195) *)
BatchPlaceholder ==
    [ok |-> TRUE, subject_code |-> "unknown", semester |-> "unknown",
     unit |-> "0"]

(* determine_initial_status(role) *)
determine_initial_status(role) ==
    CASE role = "faculty" -> <<"approved", "public">>
      [] role = "student" -> <<"ai_reviewed", "private">>
      [] OTHER -> <<"pending", "private">>

(* The names bound in routes/upload.py by its import from database.db      *)
(* (line 6).  The handlers call get_connection_repo (lines 69 and 211),    *)
(* which is defined in database/db.py but not imported: the call raises    *)
(* NameError.                                                              *)
UploadImports == {"get_connection"}

Bound(name) == name \in UploadImports

(* embedding_model.encode(text): a fixed function of the text.  The vector *)
(* has one coordinate here, the parity of the length of the text.          *)
embed(text) == Len(text) % 2

(* A row of doc_chunks *)
DocChunk(file_id, subject_code, content, chunk_index, file_type, label) ==
    [file_id |-> file_id, subject_code |-> subject_code, content |-> content,
     embedding |-> embed(content), chunk_index |-> chunk_index,
     file_type |-> file_type, section_label |-> label]

(* process_document_chunks: one row per chunk, chunk_index from 0 *)
process_document_chunks(file_id, subject_code, text, file_type) ==
    LET cs == split_text(text, file_type)
    IN [i \in 1..Len(cs) |->
          DocChunk(file_id, subject_code, Content(text, cs[i]), i - 1,
                   file_type, "")]

NextIndex_restart(chunk_index, n) == 0

(* chunk_index += 1 (line 192) after each of the n rows of a section *)
NextIndex(chunk_index, n) == chunk_index + n

RECURSIVE StructuredFrom(_, _, _, _, _, _)
(* The loop of process_structured_chunks from the section number s on *)
StructuredFrom(file_id, subject_code, sections, file_type, s, chunk_index) ==
    IF s > Len(sections) THEN << >>
    ELSE IF Blank(sections[s].content)
    THEN StructuredFrom(file_id, subject_code, sections, file_type, s + 1,
                        chunk_index)
    ELSE LET cs == split_text(sections[s].content, file_type)
         IN [i \in 1..Len(cs) |->
               DocChunk(file_id, subject_code,
                        Content(sections[s].content, cs[i]),
                        chunk_index + i - 1, file_type,
                        sections[s].section)]
            \o StructuredFrom(file_id, subject_code, sections, file_type,
                              s + 1, NextIndex(chunk_index, Len(cs)))

process_structured_chunks_joined(file_id, subject_code, sections, file_type) ==
    LET text == (IF Len(sections) >= 1 THEN sections[1].content ELSE << >>)
                \o (IF Len(sections) >= 2 THEN sections[2].content ELSE << >>)
                \o (IF Len(sections) >= 3 THEN sections[3].content ELSE << >>)
        cs == split_text(text, file_type)
    IN [i \in 1..Len(cs) |->
          DocChunk(file_id, subject_code, Content(text, cs[i]), i - 1,
                   file_type, sections[1].section)]

(* process_structured_chunks: the rows it inserts *)
process_structured_chunks(file_id, subject_code, sections, file_type) ==
    StructuredFrom(file_id, subject_code, sections, file_type, 1, 0)

(* metadata["semester"], metadata["subject_code"], metadata["unit"] raise  *)
(* KeyError when the object lacks the key                                  *)
KeyMissing(metadata) ==
    "" \in {metadata.semester, metadata.subject_code, metadata.unit}

(* The row of repository_files (steps 4 to 6) *)
RepositoryFile(file, metadata, role, owner_id) ==
    [filename |-> file.filename, file_type |-> FileType(file.filename),
     semester |-> metadata.semester, subject_code |-> metadata.subject_code,
     unit |-> metadata.unit, uploader_role |-> role, owner_id |-> owner_id,
     status |-> determine_initial_status(role)[1],
     visibility |-> determine_initial_status(role)[2],
     ai_score |-> IF role = "student" THEN 85 ELSE None]

(* Step 7: the rows written to doc_chunks for the new file *)
IndexRows(file, file_id, text, metadata) ==
    LET sections == extract_text_with_structure(file)
    IN IF sections # << >>
       THEN process_structured_chunks(file_id, metadata.subject_code,
                                      sections, FileType(file.filename))
       ELSE process_document_chunks(file_id, metadata.subject_code, text,
                                    FileType(file.filename))

RepoResp(op, status, detail, request, processed, skipped) ==
    [NoResp EXCEPT !.op = op, !.status = status, !.detail = detail,
                   !.data = [files |-> request, processed |-> processed,
                             skipped |-> skipped]]

(* POST /api/upload *)
upload_file(file, role, owner_id, cls) ==
    LET ex == extract_text_universal(file)
        file_id == Len(repository_files) + 1
        Failed(detail) == RepoResp("upload_file", 500, detail, <<file>>,
                                   << >>, << >>)
    IN
    /\ disk' = WriteFile(disk, <<"uploads", file.filename>>, file.bytes)
    /\ UNCHANGED <<users, students, faculties, files, pins, notifs, repo, now,
                   hist, audit, section, chunks, procs>>
    /\ IF ~ex.ok THEN
          /\ resp' = Failed("text extraction raised")
          /\ UNCHANGED <<repository_files, doc_chunks>>
       ELSE IF ~cls.ok THEN
          \* classify_text is called without try (line 45)
          /\ resp' = Failed("classify_text raised")
          /\ UNCHANGED <<repository_files, doc_chunks>>
       ELSE IF ~Bound("get_connection_repo") THEN
          /\ resp' = Failed("NameError: get_connection_repo")
          /\ UNCHANGED <<repository_files, doc_chunks>>
       ELSE IF KeyMissing(cls) THEN
          /\ resp' = Failed("KeyError")
          /\ UNCHANGED <<repository_files, doc_chunks>>
       ELSE
          /\ repository_files' =
                Append(repository_files,
                       RepositoryFile(file, cls, role, owner_id))
          /\ doc_chunks' = doc_chunks \o IndexRows(file, file_id, ex.text, cls)
          /\ resp' = RepoResp("upload_file", 200, "Upload successful",
                              <<file>>,
                              << [filename |-> file.filename,
                                  file_id |-> file_id, metadata |-> cls] >>,
                              << >>)

(* One round of the for loop of upload_multiple_files on the file `file`;   *)
(* acc carries what the rounds so far wrote and collected, and a status    *)
(* other than 200 is the exception that ended the request                  *)
BatchRound(file, role, owner_id, cls, acc) ==
    LET saved == [acc EXCEPT !.disk = WriteFile(acc.disk,
                                 <<"uploads", file.filename>>, file.bytes)]
        ex == extract_text_universal(file)
        metadata == IF cls.ok THEN cls ELSE BatchPlaceholder
        file_id == Len(acc.repository_files) + 1
        Skip(a, reason) ==
            [a EXCEPT !.skipped = Append(@, [filename |-> file.filename,
                                             reason |-> reason])]
        Failed(detail) == [saved EXCEPT !.status = 500, !.detail = detail]
    IN
    IF ~is_supported(file.filename) THEN Skip(acc, "Unsupported file type")
    ELSE IF ~ex.ok THEN Failed("text extraction raised")
    ELSE IF Blank(ex.text) THEN Skip(saved, "No text could be extracted")
    ELSE IF ~Bound("get_connection_repo") THEN
       Failed("NameError: get_connection_repo")
    ELSE IF KeyMissing(metadata) THEN Failed("KeyError")
    ELSE
       [saved EXCEPT
          !.repository_files =
              Append(@, RepositoryFile(file, metadata, role, owner_id)),
          !.doc_chunks = @ \o IndexRows(file, file_id, ex.text, metadata),
          !.processed = Append(@, [filename |-> file.filename,
                                   file_id |-> file_id,
                                   metadata |-> metadata])]

RECURSIVE BatchFrom(_, _, _, _, _, _)
(* The for loop of upload_multiple_files from the file number i on; it     *)
(* ends when the files are used up or a round raised                       *)
BatchFrom(request, i, role, owner_id, cls, acc) ==
    IF i > Len(request) \/ acc.status # 200 THEN acc
    ELSE BatchFrom(request, i + 1, role, owner_id, cls,
                   BatchRound(request[i], role, owner_id, cls, acc))

(* What the request leaves behind: the rows and files of the rounds, and   *)
(* the 200 response with the processed and skipped lists or the 500        *)
BatchDone(request, r) ==
    /\ disk' = r.disk
    /\ repository_files' = r.repository_files
    /\ doc_chunks' = r.doc_chunks
    /\ resp' = IF r.status = 200
               THEN RepoResp("upload_multiple_files", 200, r.detail, request,
                             r.processed, r.skipped)
               ELSE RepoResp("upload_multiple_files", 500, r.detail, request,
                             << >>, << >>)
    /\ UNCHANGED <<users, students, faculties, files, pins, notifs, repo, now,
                   hist, audit, section, chunks, procs>>

(* POST /api/upload/batch *)
upload_multiple_files(request, role, owner_id, cls) ==
    BatchDone(request,
              BatchFrom(request, 1, role, owner_id, cls,
                        [status |-> 200, detail |-> "Batch upload complete",
                         disk |-> disk, repository_files |-> repository_files,
                         doc_chunks |-> doc_chunks, processed |-> << >>,
                         skipped |-> << >>]))

(* The files sent to the smart repository: a 0-byte text file, a text file *)
(* of spaces, a text file with content, a PDF the parser cannot read, and  *)
(* a file without an extension                                             *)
RepoFiles ==
    { [filename |-> <<"empty", "txt">>, bytes |-> [shape |-> "solid", n |-> 0],
       parsed |-> TRUE],
      [filename |-> <<"blank", "txt">>, bytes |-> [shape |-> "blank", n |-> 2],
       parsed |-> TRUE],
      [filename |-> <<"notes", "txt">>, bytes |-> [shape |-> "spaced", n |-> 5],
       parsed |-> TRUE],
      [filename |-> <<"scan", "pdf">>, bytes |-> [shape |-> "solid", n |-> 0],
       parsed |-> FALSE],
      [filename |-> <<"README">>, bytes |-> [shape |-> "solid", n |-> 4],
       parsed |-> TRUE] }

MaxBatch == 2

Batches == UNION { [1..n -> RepoFiles] : n \in 1..MaxBatch }

RepoRoles == {"faculty", "student"}

UploadFileStep ==
    \E file \in RepoFiles, role \in RepoRoles, cls \in ClassifyOutcomes :
        upload_file(file, role, "1", cls)

UploadMultipleFilesStep ==
    \E request \in Batches, role \in RepoRoles, cls \in ClassifyOutcomes :
        upload_multiple_files(request, role, "1", cls)

NextRepo == UploadFileStep \/ UploadMultipleFilesStep

SpecRepo == InitPortal /\ [][NextRepo]_vars

----------------------------------------------------------------------------
(* Retrieval for the chat: services/document_rag_service.py, routes/chat.py *)

(* embedding <-> q : the Euclidean distance of pgvector *)
Distance(a, b) == IF a >= b THEN a - b ELSE b - a

(* Where the database may start among equally distant rows *)
TieOrders == {"first", "last"}

RECURSIVE OrderBy(_, _, _)
(* ORDER BY embedding <-> q over the rows ids of doc_chunks: a closest row *)
(* comes first; among equally close rows the order is the database's       *)
OrderBy(ids, q, tie) ==
    IF ids = {} THEN << >>
    ELSE LET closest ==
                {i \in ids : \A j \in ids :
                    Distance(doc_chunks[i].embedding, q)
                       <= Distance(doc_chunks[j].embedding, q)}
             Next1(c) == IF tie = "first"
                         THEN CHOOSE i \in c : \A j \in c : i <= j
                         ELSE CHOOSE i \in c : \A j \in c : i >= j
             Rest(i) == <<i>> \o OrderBy(ids \ {i}, q, tie)
         IN Rest(Next1(closest))

(* LIMIT k ; LIMIT NULL is no limit *)
Limit(rows, k) ==
    IF k = None \/ k >= Len(rows) THEN rows ELSE SubSeq(rows, 1, k)

RECURSIVE Join(_, _)
(* "\n".join([r[0] for r in rows]) from the row number i on *)
Join(rows, i) ==
    IF i > Len(rows) THEN << >>
    ELSE IF i = Len(rows) THEN doc_chunks[rows[i]].content
    ELSE doc_chunks[rows[i]].content \o <<"\n">> \o Join(rows, i + 1)

(* The context handed to _generate_answer, with the request and the ids of *)
(* the rows the query returned                                             *)
ChatResp(op, file_id, subject_code, top_k, question, rows) ==
    [NoResp EXCEPT !.op = op, !.status = 200,
                   !.data = [file_id |-> file_id,
                             subject_code |-> subject_code, top_k |-> top_k,
                             question |-> question, rows |-> rows,
                             context |-> Join(rows, 1)]]

ChatLeaves ==
    UNCHANGED <<users, students, faculties, files, pins, notifs, disk, repo,
                now, hist, audit, smart, procs>>

ByFile_any(file_id) == DOMAIN doc_chunks

(* WHERE file_id = %s *)
ByFile(file_id) == {i \in DOMAIN doc_chunks : doc_chunks[i].file_id = file_id}

(* WHERE subject_code = %s *)
BySubject(subject_code) ==
    {i \in DOMAIN doc_chunks : doc_chunks[i].subject_code = subject_code}

(* chat_with_single_document (POST /api/chat/document) *)
chat_with_single_document(file_id, question, tie) ==
    /\ resp' = ChatResp("chat_with_single_document", file_id, "", None,
                        question,
                        Limit(OrderBy(ByFile(file_id), embed(question), tie),
                              3))
    /\ ChatLeaves

(* chat_with_subject (POST /api/chat/subject) *)
chat_with_subject(subject_code, question, tie) ==
    /\ resp' = ChatResp("chat_with_subject", 0, subject_code, None, question,
                        Limit(OrderBy(BySubject(subject_code),
                                      embed(question), tie), 5))
    /\ ChatLeaves

(* chat_global (POST /api/chat/global); top_k is Optional[int] *)
chat_global(question, top_k, tie) ==
    /\ resp' = ChatResp("chat_global", 0, "", top_k, question,
                        Limit(OrderBy(DOMAIN doc_chunks, embed(question),
                                      tie), top_k))
    /\ ChatLeaves

(* The documents that have chunks stored, with their subjects *)
ChatFiles == << [file_id |-> 1, subject_code |-> "CS601"],
               [file_id |-> 2, subject_code |-> "MA101"] >>

MaxChunks == 6

(* The texts of chunks and questions: one of each embedding *)
Texts == {TextOf([shape |-> "solid", n |-> 1]),
          TextOf([shape |-> "solid", n |-> 2])}

(* The rows of doc_chunks for the chunks cs, a file's chunks next to each  *)
(* other as process_document_chunks inserts them                           *)
Stored(cs) ==
    [i \in DOMAIN cs |->
        DocChunk(ChatFiles[cs[i].f].file_id, ChatFiles[cs[i].f].subject_code,
                 cs[i].text,
                 Cardinality({j \in 1..(i - 1) : cs[j].f = cs[i].f}),
                 "pdf", "")]

(* Every stored set of at most MaxChunks chunks *)
StoredChunks ==
    { Stored(cs) :
        cs \in { c \in UNION { [1..n -> [f : DOMAIN ChatFiles, text : Texts]] :
                                  n \in 0..MaxChunks } :
                    \A i \in 1..(Len(c) - 1) : c[i].f <= c[i + 1].f } }

InitChat ==
    /\ users = << >>
    /\ students = << >>
    /\ faculties = << >>
    /\ files = << >>
    /\ pins = << >>
    /\ notifs = << >>
    /\ disk = {}
    /\ repo = {}
    /\ now = 0
    /\ resp = NoResp
    /\ hist = << >>
    /\ audit = << >>
    /\ repository_files = << >>
    /\ doc_chunks \in StoredChunks
    /\ section = NoSection
    /\ chunks = << >>
    /\ procs = << >>

(* file_id 3 has no chunks; so has subject PH101 *)
ChatFileIds == 1..3

ChatSubjects == {"CS601", "MA101", "PH101"}

TopKs == {None, 0, 2, 5}

ChatDocumentStep ==
    \E file_id \in ChatFileIds, question \in Texts, tie \in TieOrders :
        chat_with_single_document(file_id, question, tie)

ChatSubjectStep ==
    \E subject_code \in ChatSubjects, question \in Texts, tie \in TieOrders :
        chat_with_subject(subject_code, question, tie)

ChatGlobalStep ==
    \E question \in Texts, top_k \in TopKs, tie \in TieOrders :
        chat_global(question, top_k, tie)

NextChat == ChatDocumentStep \/ ChatSubjectStep \/ ChatGlobalStep

SpecChat == InitChat /\ [][NextChat]_vars

----------------------------------------------------------------------------
(* The splitter on its own: split_text applied to one section              *)

(* How many strides past the first chunk a section may run, and by how     *)
(* many characters it may pass a chunk boundary                            *)
MaxStrides == 2

MaxTail == 1

(* Section lengths around the chunk boundaries of the splitter sp *)
SectionLengths(sp) ==
    {0, 1} \cup
    { sp.chunk_size + k * (sp.chunk_size - sp.chunk_overlap) + t :
        k \in 0..MaxStrides, t \in (0 - 1)..MaxTail }

SectionShapes == {"solid", "spaced", "lead", "lines"}

SectionTypes == {"pdf", "pptx", "txt"}

Sections ==
    UNION { [shape : SectionShapes, n : SectionLengths(_get_splitter(ft)),
             file_type : {ft}] : ft \in SectionTypes }

InitSplit ==
    /\ users = << >>
    /\ students = << >>
    /\ faculties = << >>
    /\ files = << >>
    /\ pins = << >>
    /\ notifs = << >>
    /\ disk = {}
    /\ repo = {}
    /\ now = 0
    /\ resp = NoResp
    /\ hist = << >>
    /\ audit = << >>
    /\ repository_files = << >>
    /\ doc_chunks = << >>
    /\ section \in Sections
    /\ chunks = << >>
    /\ procs = << >>

(* chunks = split_text(section, file_type) *)
SplitTextStep ==
    /\ resp.op = "none"
    /\ chunks' = split_text(TextOf(section), section.file_type)
    /\ resp' = [NoResp EXCEPT !.op = "split_text", !.status = 200]
    /\ UNCHANGED <<users, students, faculties, files, pins, notifs, disk,
                   repo, now, hist, audit, repository_files, doc_chunks,
                   section, procs>>

NextSplit == SplitTextStep

SpecSplit == InitSplit /\ [][NextSplit]_vars

----------------------------------------------------------------------------
(* Properties of the login / lockout state machine (SpecLogin)             *)

LoginOf(a) == resp.op = "login" /\ resp.user = a

PasswordOK == resp.user # 0
              /\ verify_password(resp.password, users[resp.user].password_hash)

(* C1 as stated: during a run of wrong-password logins that started with   *)
(* failed_attempts = 0 and no active lockout, after wrong login k (k = 1,  *)
(* 2, 3) lockout_until is unset (None) and failed_attempts = k; after the  *)
(* 4th, lockout_until = now + 10 minutes and failed_attempts = 0.          *)
C1_AsStated ==
    \A a \in DOMAIN users :
        (hist[a].run >= 1 /\ hist[a].startFa = 0) =>
            /\ hist[a].run \in 1..3 =>
                  /\ users[a].lockout_until = None
                  /\ users[a].failed_attempts = hist[a].run
            /\ hist[a].run = 4 =>
                  /\ users[a].lockout_until = hist[a].t3 + LockSeconds
                  /\ users[a].failed_attempts = 0

(* C1 amended: during such a run, after wrong login k (k = 1, 2, 3)        *)
(* lockout_until still has the value it had when the run started (None or  *)
(* an expired lockout, so no lockout is active) and failed_attempts = k;   *)
(* after the 4th, lockout_until = now + 10 minutes and failed_attempts = 0.*)
C1_LockoutAfterFour ==
    \A a \in DOMAIN users :
        (hist[a].run >= 1 /\ hist[a].startFa = 0) =>
            /\ hist[a].run \in 1..3 =>
                  /\ users[a].lockout_until = hist[a].startLock
                  /\ ~Locked(users[a], now)
                  /\ users[a].failed_attempts = hist[a].run
            /\ hist[a].run = 4 =>
                  /\ users[a].lockout_until = hist[a].t3 + LockSeconds
                  /\ users[a].failed_attempts = 0

(* the 4th wrong login in a row has just locked the account *)
C1_Witness ==
    \E a \in DOMAIN users :
        /\ LoginOf(a) /\ resp.detail = "Too many failed attempts"
        /\ hist[a].run = 4 /\ hist[a].startFa = 0
        /\ resp.before.failed_attempts = 3

(* C2: a login on an account whose lockout_until is later than now leaves  *)
(* failed_attempts and lockout_until as they were, whatever the password,  *)
(* and is rejected with 0 < retry-after <= 10 minutes.                     *)
C2_LockedAttemptIsFrameOnly ==
    \A a \in DOMAIN users :
        (LoginOf(a) /\ resp.before.lockout_until # None
                    /\ resp.before.lockout_until > now) =>
            /\ users[a].failed_attempts = resp.before.failed_attempts
            /\ users[a].lockout_until = resp.before.lockout_until
            /\ resp.status = 403 /\ resp.detail = "Account locked"
            /\ resp.retry > 0 /\ resp.retry <= LockMinutes

(* a locked account was tried with the wrong password and with the right   *)
(* one, here the wrong one, with the full 10 minutes reported              *)
C2_Witness ==
    \E a \in DOMAIN users :
        /\ LoginOf(a) /\ resp.before.lockout_until > now
        /\ ~PasswordOK /\ resp.retry = LockMinutes

(* C3: a login that completes (password matched, 200) leaves the account   *)
(* with failed_attempts = 0 and lockout_until = None, whatever they were.  *)
C3_SuccessResets ==
    \A a \in DOMAIN users :
        (LoginOf(a) /\ resp.status = 200) =>
            /\ PasswordOK
            /\ users[a].failed_attempts = 0
            /\ users[a].lockout_until = None

(* a login completed on an account that had an (expired) lockout_until *)
C3_Witness ==
    \E a \in DOMAIN users :
        /\ LoginOf(a) /\ resp.status = 200
        /\ resp.before.lockout_until # None

(* C4: after 4 wrong passwords in a row, a login with the correct password *)
(* before lockout_until is rejected with the retry-after message, sets no  *)
(* cookie and leaves the lockout in place.                                 *)
C4_CorrectPasswordWhileLocked ==
    \A a \in DOMAIN users :
        (LoginOf(a) /\ PasswordOK /\ resp.before.run = 4
                    /\ resp.before.lockout_until > now) =>
            /\ resp.status = 403 /\ resp.detail = "Account locked"
            /\ resp.retry >= 1
            /\ resp.cookies = {}
            /\ users[a].lockout_until = resp.before.lockout_until

C4_Witness ==
    \E a \in DOMAIN users :
        /\ LoginOf(a) /\ PasswordOK /\ resp.before.run = 4
        /\ resp.before.lockout_until > now
        /\ resp.before.status = "ACTIVE"

(* C5: the first login on a locked account at a time now >= lockout_until  *)
(* is handled as for an account that is not locked: a correct password     *)
(* resets the counters and passes to the status gate (an ACTIVE account    *)
(* logs in), a wrong password is attempt 1 of 4.  No other action is       *)
(* needed in between.                                                      *)
C5_PassiveExpiry ==
    \A a \in DOMAIN users :
        (LoginOf(a) /\ resp.before.run = 4
                    /\ resp.before.lockout_until # None
                    /\ now >= resp.before.lockout_until) =>
            IF PasswordOK
            THEN /\ users[a].failed_attempts = 0
                 /\ users[a].lockout_until = None
                 /\ resp.before.status = "ACTIVE" =>
                        (resp.status = 200 /\ resp.cookies # {})
            ELSE /\ resp.status = 401 /\ resp.detail = "Attempt n/4"
                 /\ resp.arg = 1
                 /\ users[a].failed_attempts = 1
                 /\ hist[a].run = 1

(* a login at exactly now = lockout_until with the correct password *)
C5_Witness ==
    \E a \in DOMAIN users :
        /\ LoginOf(a) /\ resp.before.run = 4
        /\ now = resp.before.lockout_until
        /\ PasswordOK /\ resp.status = 200

(* C6: login sets the token cookies only for an ACTIVE account; with the   *)
(* correct password (and no lockout) a PENDING account gets the pending    *)
(* message, a SUSPENDED account the suspended message, the two differ and  *)
(* neither response sets a cookie.                                         *)
C6_StatusGate ==
    \A a \in DOMAIN users :
        LoginOf(a) =>
            /\ resp.cookies # {} =>
                  (resp.before.status = "ACTIVE" /\ resp.status = 200)
            /\ (PasswordOK /\ ~(resp.before.lockout_until > now)) =>
                  /\ resp.before.status = "PENDING" =>
                        /\ resp.status = 403 /\ resp.detail = PendingMsg
                        /\ resp.cookies = {}
                  /\ resp.before.status = "SUSPENDED" =>
                        /\ resp.status = 403 /\ resp.detail = SuspendedMsg
                        /\ resp.cookies = {}
                  /\ resp.before.status = "ACTIVE" =>
                        /\ resp.status = 200
                        /\ resp.cookies = {create_access_token(str(a)),
                                           create_refresh_token(str(a))}
            /\ PendingMsg # SuspendedMsg

(* a suspended account presented the correct password *)
C6_Witness ==
    \E a \in DOMAIN users :
        /\ LoginOf(a) /\ PasswordOK
        /\ resp.before.status = "SUSPENDED" /\ resp.detail = SuspendedMsg

----------------------------------------------------------------------------
(* Properties of the role gate and of token resolution                     *)

Forbidden == resp.status = 403 /\ resp.detail = "Not enough permissions"

(* C7: a request with the cookie of account u passes check_role(allowed)   *)
(* exactly when u's role is in the endpoint's allow-set; a role outside it *)
(* always gets 403 "Not enough permissions", the same for every allow-set; *)
(* ADMIN is rejected by create_pin and delete_pin (allow-set {STUDENT}).   *)
C7_RoleGate ==
    \A u \in DOMAIN users :
        (resp.op \in {"create_pin", "delete_pin", "list_courses",
                      "list_pending_files"}
         /\ resp.token = create_access_token(str(u))) =>
            /\ users[u].role \in Allowed(resp.op) <=> ~Forbidden
            /\ users[u].role \notin Allowed(resp.op) => resp.user = u
            /\ resp.status # 401
            /\ (users[u].role = "ADMIN"
                /\ resp.op \in {"create_pin", "delete_pin"}) => Forbidden
            /\ (users[u].role = "FACULTY"
                /\ resp.op \in {"create_pin", "delete_pin",
                                "list_pending_files"}) => Forbidden
            /\ (users[u].role = "STUDENT"
                /\ resp.op = "list_pending_files") => Forbidden

(* the admin asked to delete a pin that exists and was refused at the gate *)
C7_Witness ==
    /\ resp.op = "delete_pin" /\ Forbidden
    /\ resp.user # 0 /\ users[resp.user].role = "ADMIN"
    /\ PinById(resp.arg) # 0

(* s is an integer numeral: spaces, an optional sign, digits, spaces *)
IsIntegerText(s) ==
    \E i \in 1..Len(s), j \in 1..Len(s) :
        /\ i <= j
        /\ \A k \in 1..(i - 1) : s[k] = " "
        /\ \A k \in (j + 1)..Len(s) : s[k] = " "
        /\ \A k \in (i + 1)..j : s[k] \in Digits
        /\ \/ s[i] \in Digits
           \/ s[i] \in {"-", "+"} /\ j > i

(* C8: a request is rejected with 401 when the cookie is missing, the      *)
(* signature is bad, the token is expired, sub is missing or empty or not  *)
(* an integer, or no account has that id; an expired token and a forged    *)
(* one get the same response; otherwise the account whose id is sub is     *)
(* the current user.                                                       *)
C8_TokenResolution ==
    resp.op \in {"list_courses", "list_pending_files"} =>
        LET token == resp.token
            rejected ==
                \/ ~token.present
                \/ ~token.sig
                \/ token.expired
                \/ ~token.hasSub
                \/ ~IsIntegerText(token.sub)
                \/ int(token.sub).value \notin DOMAIN users
        IN /\ rejected => (resp.status = 401 /\ resp.user = 0)
           /\ ~rejected => (resp.status # 401
                            /\ resp.user = int(token.sub).value)
           /\ (token.present /\ (~token.sig \/ token.expired)) =>
                  resp.detail = "Session expired or invalid token"
           /\ (resp.op = "list_courses" /\ ~rejected) => resp.status = 200

(* an expired, correctly signed token of an existing account was refused *)
C8_Witness ==
    /\ resp.op = "list_courses" /\ resp.status = 401
    /\ resp.token.present /\ resp.token.sig /\ resp.token.expired
    /\ resp.token.hasSub /\ IsIntegerText(resp.token.sub)
    /\ int(resp.token.sub).value \in DOMAIN users

----------------------------------------------------------------------------
(* Properties of file intake and moderation (SpecFiles)                    *)

(* C9: the row faculty_upload_file has just created is APPROVED with       *)
(* uploaded_by_role FACULTY, the row student_upload_file has just created  *)
(* is PENDING with uploaded_by_role STUDENT, whoever the admitted caller   *)
(* is (an ADMIN included).                                                 *)
C9_UploadStatus ==
    /\ (resp.op = "faculty_upload_file" /\ resp.arg # 0) =>
          /\ resp.arg = Len(files)
          /\ files[resp.arg].status = "APPROVED"
          /\ files[resp.arg].uploaded_by_role = "FACULTY"
          /\ files[resp.arg].uploaded_by_id = resp.user
    /\ (resp.op = "student_upload_file" /\ resp.arg # 0) =>
          /\ resp.arg = Len(files)
          /\ files[resp.arg].status = "PENDING"
          /\ files[resp.arg].uploaded_by_role = "STUDENT"
          /\ files[resp.arg].uploaded_by_id = resp.user
    /\ (resp.op \in {"faculty_upload_file", "student_upload_file"}
        /\ resp.status = 200) => resp.arg # 0

(* the admin uploaded through the student endpoint *)
C9_Witness ==
    /\ resp.op = "student_upload_file" /\ resp.arg # 0
    /\ users[resp.user].role = "ADMIN"
    /\ files[resp.arg].status = "PENDING"

(* C10: the status of an UploadedFile changes only in approve_file or      *)
(* deny_file called by an ADMIN, and every change is PENDING -> APPROVED   *)
(* or PENDING -> DENIED; APPROVED never becomes DENIED and DENIED never    *)
(* becomes APPROVED.                                                       *)
C10_AsStated ==
    [][ \A i \in DOMAIN files :
          files'[i].status # files[i].status =>
             /\ resp'.op \in {"approve_file", "deny_file"}
             /\ users[resp'.user].role = "ADMIN"
             /\ files[i].status = "PENDING"
             /\ files'[i].status \in {"APPROVED", "DENIED"} ]_vars


(* C11: approve_file on an existing file, called by the HOD, always        *)
(* answers success and leaves the file APPROVED, whatever became of the    *)
(* re-submission to the smart repository: it went through, it was answered *)
(* with a non-OK response, it raised, or it was skipped because the stored *)
(* file is missing.                                                        *)
C11_ApprovalSurvivesIngestFailure ==
    (/\ resp.op = "approve_file"
     /\ Admitted("approve_file", resp.token)
     /\ resp.arg \in DOMAIN files)
    => /\ resp.status = 200
       /\ resp.ext \in RagOutcomes \cup {"skipped"}
       /\ files[resp.arg].status = "APPROVED"

(* a file that was not APPROVED is approved while its stored file is gone *)
C11_Witness ==
    /\ resp.op = "approve_file"
    /\ resp.status = 200
    /\ resp.ext = "skipped"
    /\ resp.before.status = "PENDING"
    /\ files[resp.arg].status = "APPROVED"


(* C12: approve_file on a file that is already APPROVED, and deny_file on  *)
(* a file that is already DENIED, answer success and leave the status as   *)
(* it was.                                                                 *)
C12_RepeatedDecisionIsSafe ==
    (/\ resp.op \in {"approve_file", "deny_file"}
     /\ Admitted(resp.op, resp.token)
     /\ resp.arg \in DOMAIN files)
    => /\ resp.status = 200
       /\ (resp.op = "approve_file" /\ resp.before.status = "APPROVED")
             => files[resp.arg].status = "APPROVED"
       /\ (resp.op = "deny_file" /\ resp.before.status = "DENIED")
             => files[resp.arg].status = "DENIED"

(* a student upload that the HOD approved is approved a second time *)
C12_Witness ==
    /\ resp.op = "approve_file"
    /\ resp.status = 200
    /\ resp.before.status = "APPROVED"
    /\ resp.arg \in DOMAIN files
    /\ files[resp.arg].uploaded_by_role = "STUDENT"
    /\ files[resp.arg].status = "APPROVED"


(* C13: a student upload whose classifier call raised or was answered with *)
(* a non-OK response still completes, with the placeholders UNKNOWN / 6 /  *)
(* 1: the temporary file is gone, the bytes are at                         *)
(* uploads/6/UNKNOWN/unit_1/<filename>, and the new PENDING row records    *)
(* that path and the placeholder metadata.                                 *)
C13_ClassifierFailurePlaceholders ==
    [][ (/\ resp' # resp
         /\ resp'.op = "student_upload_file"
         /\ resp'.ext = "classifier_failed")
        => LET filename == resp'.data[1]
               path == UploadPath("6", "UNKNOWN", "1", filename)
           IN /\ resp'.status = 200
              /\ Len(files') = Len(files) + 1
              /\ files'[Len(files')] =
                    UploadedFile(filename, path, "UNKNOWN", "1", "6",
                                 resp'.user, "STUDENT", "PENDING")
              /\ [path |-> path, bytes |-> resp'.data[2]] \in disk'
              /\ \A e \in disk' : e.path # TempPath(filename) ]_vars

C13_Witness ==
    /\ resp.op = "student_upload_file"
    /\ resp.ext = "classifier_failed"
    /\ resp.status = 200
    /\ files[resp.arg].subject_code = "UNKNOWN"
    /\ files[resp.arg].status = "PENDING"
    /\ Exists(UploadPath("6", "UNKNOWN", "1", resp.data[1]))


(* The files of a smart repository upload whose extracted text is empty *)
EmptyText(file) ==
    /\ extract_text_universal(file).ok
    /\ extract_text_universal(file).text = << >>

(* C14 as stated: an upload to the smart repository (upload_file or        *)
(* upload_multiple_files) of a file whose extracted text is empty ends     *)
(* without an unhandled error, with the file recorded under placeholder    *)
(* classification metadata and with no doc_chunks row for it.              *)
C14_AsStated ==
    (/\ resp.op \in {"upload_file", "upload_multiple_files"}
     /\ \E i \in DOMAIN resp.data.files : EmptyText(resp.data.files[i]))
    => /\ resp.status = 200
       /\ \A i \in DOMAIN resp.data.files :
             EmptyText(resp.data.files[i]) =>
               \E p \in DOMAIN resp.data.processed :
                  LET done == resp.data.processed[p]
                  IN /\ done.filename = resp.data.files[i].filename
                     /\ done.metadata = BatchPlaceholder
                     /\ \A c \in DOMAIN doc_chunks :
                           doc_chunks[c].file_id # done.file_id

----------------------------------------------------------------------------
(* Properties of the audit log (SpecPins)                                  *)

----------------------------------------------------------------------------
(* Properties of the retrieval (SpecChat)                                  *)

(* The lines of a context: the stretches between its "\n" characters *)
Lines(context) ==
    LET breaks == {i \in DOMAIN context : context[i] = "\n"}
        Start(k) == IF k = 1 THEN 1
                    ELSE 1 + CHOOSE i \in breaks :
                                Cardinality({j \in breaks : j <= i}) = k - 1
        End(k) == IF k = Cardinality(breaks) + 1 THEN Len(context)
                  ELSE (CHOOSE i \in breaks :
                           Cardinality({j \in breaks : j <= i}) = k) - 1
    IN IF context = << >> THEN << >>
       ELSE [k \in 1..(Cardinality(breaks) + 1) |->
                SubSeq(context, Start(k), End(k))]

(* C15: for every stored set of chunks and every question,                 *)
(* chat_with_single_document uses only chunks of the requested file_id, at *)
(* most 3; chat_with_subject only chunks of the requested subject_code, at *)
(* most 5; chat_global at most top_k chunks; the chunks stand in the       *)
(* context in non-decreasing distance to the question, and no matching     *)
(* chunk that was left out is closer than one that was used.               *)
C15_RetrievalScopedAndOrdered ==
    resp.op \in {"chat_with_single_document", "chat_with_subject",
                 "chat_global"} =>
        LET rows == resp.data.rows
            q == embed(resp.data.question)
            matching ==
                CASE resp.op = "chat_with_single_document" ->
                        {i \in DOMAIN doc_chunks :
                            doc_chunks[i].file_id = resp.data.file_id}
                  [] resp.op = "chat_with_subject" ->
                        {i \in DOMAIN doc_chunks :
                            doc_chunks[i].subject_code
                               = resp.data.subject_code}
                  [] OTHER -> DOMAIN doc_chunks
            limit == CASE resp.op = "chat_with_single_document" -> 3
                       [] resp.op = "chat_with_subject" -> 5
                       [] OTHER -> resp.data.top_k
            used == {rows[k] : k \in DOMAIN rows}
        IN /\ used \subseteq matching
           /\ Cardinality(used) = Len(rows)
           /\ limit # None => Len(rows) <= limit
           /\ \A k, l \in DOMAIN rows :
                 k < l => Distance(doc_chunks[rows[k]].embedding, q)
                            <= Distance(doc_chunks[rows[l]].embedding, q)
           /\ \A i \in matching \ used :
                 /\ Len(rows) = limit
                 /\ \A k \in DOMAIN rows :
                       Distance(doc_chunks[rows[k]].embedding, q)
                          <= Distance(doc_chunks[i].embedding, q)
           /\ Lines(resp.data.context)
                 = [k \in DOMAIN rows |-> doc_chunks[rows[k]].content]

(* a question about one document whose answer had to leave a chunk of the  *)
(* document out, took a later chunk before an earlier one, and passed over *)
(* a closer chunk of another document                                      *)
C15_Witness ==
    /\ resp.op = "chat_with_single_document"
    /\ Len(resp.data.rows) = 3
    /\ \E i \in DOMAIN doc_chunks :
          /\ doc_chunks[i].file_id = resp.data.file_id
          /\ \A k \in 1..3 : resp.data.rows[k] # i
    /\ \E k \in 1..2 : resp.data.rows[k] > resp.data.rows[k + 1]
    /\ \E i \in DOMAIN doc_chunks :
          /\ doc_chunks[i].file_id # resp.data.file_id
          /\ Distance(doc_chunks[i].embedding, embed(resp.data.question))
                < Distance(doc_chunks[resp.data.rows[3]].embedding,
                           embed(resp.data.question))

----------------------------------------------------------------------------
(* Properties of the splitter (SpecSplit)                                  *)

RECURSIVE Rejoined(_, _, _, _)
(* The chunks from the number k on, joined with the overlap of             *)
(* chunk_overlap characters taken off the front of every chunk but the     *)
(* first                                                                   *)
Rejoined(text, cs, k, overlap) ==
    IF k > Len(cs) THEN << >>
    ELSE (IF k = 1 THEN Content(text, cs[k])
          ELSE SubSeq(Content(text, cs[k]), overlap + 1, SpanLen(cs[k])))
         \o Rejoined(text, cs, k + 1, overlap)

(* The start offsets of the chunks advance by chunk_size - chunk_overlap,  *)
(* the last chunk excepted, and the chunks rejoined are the text           *)
FixedStride(text, cs, sp) ==
    /\ \A k \in 1..(Len(cs) - 2) :
          cs[k + 1][1] - cs[k][1] = sp.chunk_size - sp.chunk_overlap
    /\ Rejoined(text, cs, 1, sp.chunk_overlap) = text

(* C17 as stated: splitting a section of N characters with chunk size C    *)
(* and overlap O (500/100, 800/50, 1000/150 by file type) yields chunks    *)
(* whose start offsets advance by exactly C - O except for the last chunk, *)
(* and joining the chunks with the overlaps removed gives back the         *)
(* section.                                                                *)
C17_AsStated ==
    resp.op = "split_text" =>
        FixedStride(TextOf(section), chunks, _get_splitter(section.file_type))

(* C17, amended: the same for a section that holds no whitespace           *)
(* character; a section with whitespace is cut at its separators and       *)
(* stripped.                                                               *)
C17_FixedStrideWithoutWhitespace ==
    (/\ resp.op = "split_text"
     /\ \A i \in 1..section.n : ~IsSpace(TextOf(section)[i])) =>
        FixedStride(TextOf(section), chunks, _get_splitter(section.file_type))

(* a section without whitespace was cut into four chunks, the last one     *)
(* shorter than the overlap and a stride                                   *)
C17_Witness ==
    /\ resp.op = "split_text"
    /\ section.shape = "solid" /\ section.file_type = "pptx"
    /\ Len(chunks) = 4
    /\ chunks[2][1] = 1 + SlideSize - SlideOverlap
    /\ chunks[4][2] = section.n
    /\ SpanLen(chunks[4]) < SlideSize - SlideOverlap

----------------------------------------------------------------------------
(* Properties of the upload directory (SpecCollide)                        *)

(* C18: an upload writes its bytes to                                      *)
(* uploads/<semester>/<subject_code>/unit_<unit>/<filename> whatever the   *)
(* file there held, and adds its row without touching the earlier rows: so *)
(* after two uploads of one filename into one path the file holds the      *)
(* bytes of the upload that wrote last, and both rows exist and reference  *)
(* that path.                                                              *)
C18_LastWriteWins ==
    [][ Len(files') = Len(files) + 1 =>
          LET new == files'[Len(files')]
              p == new.file_path
          IN /\ p = UploadPath(new.semester, new.subject_code, new.unit,
                               new.filename)
             /\ new.filename = resp'.data[1]
             /\ {e \in disk' : e.path = p}
                   = {[path |-> p, bytes |-> resp'.data[2]]}
             /\ \A e \in disk : e.path # p => e \in disk'
             /\ \A i \in DOMAIN files : files'[i] = files[i]
             /\ \A i \in DOMAIN files' :
                   Cardinality({e \in disk' :
                                  e.path = files'[i].file_path}) = 1 ]_vars

(* the student's and the faculty member's notes.pdf met in one directory:  *)
(* two rows, one file, holding what the second upload sent                 *)
C18_Witness ==
    /\ Len(files) = 2
    /\ files[1].file_path = files[2].file_path
    /\ files[1].uploaded_by_role = "FACULTY"
    /\ files[2].uploaded_by_role = "STUDENT"
    /\ resp.op = "student_upload_file" /\ resp.data[2] = "b2"
    /\ disk = {[path |-> files[1].file_path, bytes |-> "b2"]}

----------------------------------------------------------------------------
(* Properties of the lockout arithmetic (SpecLogin)                        *)

(* ceil(a / b) for a positive a *)
Ceil(a, b) == (a + b - 1) \div b

(* C19 as stated: the retry-after value reported to a locked account is    *)
(* ceil((lockout_until - now) / 60 seconds) for every remaining lockout    *)
(* duration, the exact multiples of 60 seconds included; now is the clock  *)
(* read of line 42, kept in resp.data.                                     *)
C19_AsStated ==
    (/\ resp.op = "login" /\ resp.status = 403
     /\ resp.detail = "Account locked"
     /\ users[resp.user].lockout_until > resp.data[1]) =>
        resp.retry = Ceil(users[resp.user].lockout_until - resp.data[1],
                          SecondsPerMinute)

(* C20: lockout_until of an account is set to a lock time only by a        *)
(* wrong-password login that is the 4th in an unbroken run of              *)
(* wrong-password logins on that account (no password match in between);   *)
(* a login with an unknown email, a login rejected while locked and the    *)
(* admin operations leave it as it is.  The one other change is the        *)
(* password match, which clears it.                                        *)
C20_LockoutSetOnlyByFourthFailure ==
    [][ /\ \A a \in DOMAIN users :
             users'[a].lockout_until # users[a].lockout_until =>
                /\ resp'.op = "login" /\ resp'.user = a
                /\ resp'.detail # "Account locked"
                /\ IF users'[a].lockout_until # None
                   THEN /\ resp'.status = 401
                        /\ ~verify_password(resp'.password,
                                            users[a].password_hash)
                        /\ hist[a].run = MaxAttempts - 1
                        /\ hist'[a].run = MaxAttempts
                        /\ users'[a].lockout_until > now
                   ELSE verify_password(resp'.password,
                                        users[a].password_hash)
        /\ (resp' # resp
            /\ \/ resp'.op \in {"approve_account", "remove_student"}
               \/ resp'.op = "login" /\ resp'.user = 0
               \/ resp'.op = "login" /\ resp'.detail = "Account locked") =>
               \A a \in DOMAIN users :
                  users'[a].lockout_until = users[a].lockout_until ]_vars

(* the 4th wrong password in a row has just locked the account: the lock  *)
(* time is new, and the run began on an account that was not locked       *)
C20_Witness ==
    /\ resp.op = "login" /\ resp.status = 401
    /\ resp.user \in DOMAIN users
    /\ ~verify_password(resp.password, users[resp.user].password_hash)
    /\ resp.before.run = MaxAttempts - 1
    /\ hist[resp.user].run = MaxAttempts
    /\ resp.before.lockout_until = None
    /\ users[resp.user].lockout_until = hist[resp.user].t3 + LockSeconds

----------------------------------------------------------------------------
(* Properties of the personal pins (SpecPins)                              *)

(* C30: delete_pin removes a pin only when the pin's student_id is the id  *)
(* of the calling student's own profile: for a pin of another student the  *)
(* call is rejected with 403 and the pin stays, for a pin id that does not *)
(* exist it is rejected with 404 and nothing is deleted.                   *)
C30_DeleteOwnPinOnly ==
    [][ /\ \A p \in DOMAIN pins :
             (pins'[p].deleted /\ ~pins[p].deleted) =>
                /\ resp'.op = "delete_pin" /\ resp'.arg = p
                /\ resp'.status = 200
                /\ users[resp'.user].role = "STUDENT"
                /\ \E i \in DOMAIN students :
                      /\ students[i].user_id = resp'.user
                      /\ pins[p].student_id = i
        /\ (resp'.op = "delete_pin" /\ resp'.user # 0
            /\ users[resp'.user].role = "STUDENT") =>
               LET p == resp'.arg
                   exists == p \in DOMAIN pins /\ ~pins[p].deleted
                   own == \E i \in DOMAIN students :
                             /\ students[i].user_id = resp'.user
                             /\ pins[p].student_id = i
               IN /\ ~exists =>
                        (resp'.status = 404 /\ resp'.detail = "Pin not found"
                         /\ pins' = pins)
                  /\ (exists /\ ~own) =>
                        (resp'.status = 403 /\ resp'.detail = "Unauthorized"
                         /\ pins' = pins)
                  /\ (exists /\ own) => pins'[p].deleted ]_vars

(* a student asked to delete a pin of the other student and was refused;   *)
(* the pin is still there                                                  *)
C30_Witness ==
    /\ resp.op = "delete_pin" /\ resp.status = 403
    /\ resp.detail = "Unauthorized"
    /\ resp.arg \in DOMAIN pins /\ ~pins[resp.arg].deleted
    /\ students[pins[resp.arg].student_id].user_id # resp.user

----------------------------------------------------------------------------
(* routers/common.py: the public resource search *)

(* semester.replace("th Sem", "")...strip() (line 23) on the values the    *)
(* filter form sends                                                       *)
SemVal(semester) ==
    CASE semester = "6th Sem" -> "6"
      [] semester = "4th Sem" -> "4"
      [] semester = "1st Sem" -> "1"
      [] OTHER -> semester

FacultyName == "Dr. Rao"

(* uploader_name (lines 31-34): "Student", the Faculty row's name, or the  *)
(* e-mail of a faculty uploader without Faculty row                        *)
UploaderName(f) ==
    IF f.uploaded_by_role = "FACULTY"
    THEN (IF FacultyOf(f.uploaded_by_id) # 0 THEN FacultyName
          ELSE users[f.uploaded_by_id].email)
    ELSE "Student"

(* faculty_name.lower() in uploader_name.lower() for the needles searched  *)
NameContains(needle, name) ==
    \/ needle = "RAO" /\ name = "Dr. Rao"
    \/ needle = "stud" /\ name = "Student"

Searchable_notdenied(f) == f.status # "DENIED"

(* .where(UploadedFile.status == FileStatus.APPROVED) (line 17) *)
Searchable(f) == f.status = "APPROVED"

(* The ids of the rows the statement and the name filter let through;      *)
(* a filter that is None or "" is not applied                              *)
SearchResults(subject_code, semester, faculty_name) ==
    { id \in DOMAIN files :
        /\ files[id].uploaded_by_id \in DOMAIN users
        /\ Searchable(files[id])
        /\ subject_code # "" => files[id].subject_code = subject_code
        /\ semester # "" => files[id].semester = SemVal(semester)
        /\ faculty_name # "" =>
               NameContains(faculty_name, UploaderName(files[id])) }

(* GET /resources/search: no authentication dependency *)
search_files(subject_code, semester, faculty_name) ==
    /\ resp' = [Resp("search_files", NoCookie, 200, "", 0, 0)
                 EXCEPT !.data = << SearchResults(subject_code, semester,
                                                  faculty_name) >>,
                        !.ext = subject_code]
    /\ UNCHANGED <<users, students, faculties, files, pins, notifs, disk,
                   repo, now, hist, audit, smart, procs>>

(* The search between uploads and moderation: the student and the faculty  *)
(* member upload, the HOD approves and denies, anyone searches             *)
SearchSubjects == {"", "CS601", "MA101"}
SearchSemesters == {"", "6th Sem", "4th Sem"}
SearchNames == {"", "RAO", "stud"}

SearchFacultyUploadStep ==
    \E subject_code \in {"CS601", "MA101"} :
        /\ Len(files) < MaxUploads
        /\ faculty_upload_file(create_access_token(str(2)), "notes.pdf", "b1",
                               subject_code, "1", "6", "written")

SearchStudentUploadStep ==
    \E meta \in {m \in ClassifierResults : m.subject_code # ""} :
        /\ Len(files) < MaxUploads
        /\ student_upload_file(create_access_token(str(1)), "notes.pdf", "b1",
                               meta, "written")

SearchApproveStep ==
    \E file_id \in DOMAIN files :
        approve_file(create_access_token(str(3)), file_id, "ok", "written")

SearchDenyStep ==
    \E file_id \in DOMAIN files :
        deny_file(create_access_token(str(3)), file_id, "written")

SearchFilesStep ==
    \E subject_code \in SearchSubjects, semester \in SearchSemesters,
       faculty_name \in SearchNames :
        search_files(subject_code, semester, faculty_name)

NextSearch ==
    \/ SearchFacultyUploadStep \/ SearchStudentUploadStep
    \/ SearchApproveStep \/ SearchDenyStep \/ SearchFilesStep

SpecSearch == InitPortal /\ [][NextSearch]_vars

(* C26: search_files returns a file only if its status at the time of the  *)
(* query is APPROVED; a PENDING or DENIED file never appears in the        *)
(* results, whatever the filters.                                          *)
C26_OnlyApprovedSearchable ==
    resp.op = "search_files" =>
        \A id \in resp.data[1] :
            /\ id \in DOMAIN files
            /\ files[id].status = "APPROVED"
            /\ files[id].status \notin {"PENDING", "DENIED"}

(* an unfiltered search returned an approved file and left out a file that *)
(* is pending or denied                                                    *)
C26_Witness ==
    /\ resp.op = "search_files" /\ resp.ext = ""
    /\ resp.data[1] # {}
    /\ \E id \in DOMAIN files :
          /\ files[id].status \in {"PENDING", "DENIED"}
          /\ id \notin resp.data[1]
    /\ \E id \in DOMAIN files :
          files[id].status = "DENIED" /\ files[id].uploaded_by_role = "FACULTY"

----------------------------------------------------------------------------
(* Suspended accounts and the role gate: the HOD removes students and      *)
(* faculty members while the browsers of the four accounts keep sending    *)
(* the cookies they hold; one cookie of the student has run out            *)
ExpiredToken(sub) == [create_access_token(sub) EXCEPT !.expired = TRUE]

SuspendTokens == SessionTokens \cup {ExpiredToken(str(1)), NoCookie}

SuspendRemoveStudentStep ==
    \E token \in SuspendTokens, student_id \in 1..(Len(students) + 1) :
        remove_student(token, student_id, "written")

SuspendRemoveFacultyStep ==
    \E token \in SuspendTokens, faculty_id \in 1..(Len(faculties) + 1) :
        remove_faculty(token, faculty_id, "written")

SuspendCreatePinStep ==
    \E token \in SuspendTokens : create_pin(token, TRUE, "written")

SuspendListCoursesStep == \E token \in SuspendTokens : list_courses(token)

SuspendListPendingFilesStep ==
    \E token \in SuspendTokens : list_pending_files(token)

NextSuspend ==
    \/ SuspendRemoveStudentStep \/ SuspendRemoveFacultyStep
    \/ SuspendCreatePinStep \/ SuspendListCoursesStep
    \/ SuspendListPendingFilesStep

SpecSuspend == InitPortal /\ [][NextSuspend]_vars

(* What the dependency has to decide from: the token, whether the account  *)
(* exists, and the role stored for it when the request arrives             *)
TokenValid(t) ==
    /\ t.present /\ t.sig /\ ~t.expired /\ t.hasSub /\ t.sub # << >>
    /\ int(t.sub).ok

(* C29: get_current_user and check_role decide from the token's validity,  *)
(* the account's existence and its current stored role only; the status is *)
(* never read, so a token issued to an account that remove_student or      *)
(* remove_faculty has since set to SUSPENDED is still accepted by every    *)
(* role-gated endpoint until the token expires.                            *)
C29_GateIgnoresStatus ==
    [][ resp'.op \in {"remove_student", "remove_faculty", "create_pin",
                      "list_courses", "list_pending_files"} =>
          LET t == resp'.token
              known == TokenValid(t) /\ int(t.sub).value \in DOMAIN users
              refused401 == resp'.status = 401
              refused403 == /\ resp'.status = 403
                            /\ resp'.detail = "Not enough permissions"
          IN /\ refused401 <=> ~known
             /\ refused403 <=>
                   (known /\ users[int(t.sub).value].role
                               \notin Allowed(resp'.op))
             /\ (~refused401 /\ ~refused403) =>
                   resp'.user = int(t.sub).value ]_vars

(* the suspended student created a pin with the cookie issued before the   *)
(* removal                                                                 *)
C29_Witness ==
    /\ resp.op = "create_pin" /\ resp.status = 200
    /\ resp.user \in DOMAIN users
    /\ users[resp.user].status = "SUSPENDED"
    /\ resp.token = create_access_token(str(resp.user))

----------------------------------------------------------------------------
(* Properties of the failed-attempt counter (SpecLogin)                    *)

(* C27: in every committed state of an account 0 <= failed_attempts <= 3:  *)
(* the counter never stays at 4 or more and never goes below 0, after any  *)
(* sequence of login attempts.                                             *)
C27_CounterRange ==
    \A a \in DOMAIN users :
        /\ users[a].failed_attempts >= 0
        /\ users[a].failed_attempts <= MaxAttempts - 1

(* a wrong password met the counter at 3: the row was committed with the   *)
(* counter back at 0 and the lock set                                      *)
C27_Witness ==
    /\ resp.op = "login" /\ resp.status = 401
    /\ resp.user \in DOMAIN users
    /\ resp.before.failed_attempts = MaxAttempts - 1
    /\ users[resp.user].failed_attempts = 0
    /\ users[resp.user].lockout_until # None

----------------------------------------------------------------------------
(* The structured chunk writer on its own: process_structured_chunks on a  *)
(* pdf of up to MaxSections pages, some of them blank, some longer than a  *)
(* chunk.  resp.data keeps the pages as [section, shape, n].               *)
MaxSections == 3

PageLabels == <<"page_1", "page_2", "page_3", "page_4", "page_5", "page_6">>

PageTexts ==
    { [shape |-> "blank", n |-> 2], [shape |-> "solid", n |-> 3],
      [shape |-> "solid", n |-> 7], [shape |-> "spaced", n |-> 6],
      [shape |-> "solid", n |-> DenseSize + 1] }

Documents ==
    UNION { [1..k -> PageTexts] : k \in 0..MaxSections }

(* sections = [{"section": "page_1", "content": "..."}, ...] *)
SectionsOf(doc) ==
    [s \in DOMAIN doc |->
        [section |-> PageLabels[s], content |-> TextOf(doc[s])]]

InitStruct ==
    /\ users = << >>
    /\ students = << >>
    /\ faculties = << >>
    /\ files = << >>
    /\ pins = << >>
    /\ notifs = << >>
    /\ disk = {}
    /\ repo = {}
    /\ now = 0
    /\ resp = NoResp
    /\ hist = << >>
    /\ audit = << >>
    /\ repository_files = << >>
    /\ doc_chunks = << >>
    /\ section = NoSection
    /\ chunks = << >>
    /\ procs = << >>

ProcessStructuredChunksStep ==
    \E doc \in Documents :
        /\ resp.op = "none"
        /\ doc_chunks' = doc_chunks \o
               process_structured_chunks(1, "CS601", SectionsOf(doc), "pdf")
        /\ resp' = [NoResp EXCEPT !.op = "process_structured_chunks",
                                  !.status = 200,
                                  !.data = [s \in DOMAIN doc |->
                                              [section |-> PageLabels[s],
                                               shape |-> doc[s].shape,
                                               n |-> doc[s].n]]]
        /\ UNCHANGED <<users, students, faculties, files, pins, notifs, disk,
                       repo, now, hist, audit, repository_files, section,
                       chunks, procs>>

NextStruct == ProcessStructuredChunksStep

SpecStruct == InitStruct /\ [][NextStruct]_vars

(* The pages of the call whose content is not blank *)
Filled == { s \in DOMAIN resp.data : ~Blank(TextOf(resp.data[s])) }

(* The rows that carry the label of page s *)
RowsOf(s) ==
    { i \in DOMAIN doc_chunks :
        doc_chunks[i].section_label = resp.data[s].section }

(* C22: for one call of process_structured_chunks the chunk_index values   *)
(* of the inserted rows are exactly 0, 1, ..., n-1 in insertion order,     *)
(* without gap or repeat: the index continues across sections and a blank  *)
(* section is skipped without using an index.                              *)
C22_IndexContinuous ==
    resp.op = "process_structured_chunks" =>
        /\ \A i \in DOMAIN doc_chunks : doc_chunks[i].chunk_index = i - 1
        /\ \A s \in DOMAIN resp.data :
              IF s \in Filled
              THEN /\ RowsOf(s) # {}
                   /\ \A t \in Filled : \A i \in RowsOf(s), j \in RowsOf(t) :
                         s < t => i < j
              ELSE RowsOf(s) = {}

(* a page of two chunks, then a blank page, then a filled page: the third  *)
(* page's row has index 2                                                  *)
C22_Witness ==
    /\ resp.op = "process_structured_chunks"
    /\ Len(resp.data) = 3
    /\ resp.data[1].n > DenseSize
    /\ resp.data[2].shape = "blank"
    /\ Len(doc_chunks) = 3
    /\ doc_chunks[3].section_label = "page_3"
    /\ doc_chunks[3].chunk_index = 2

(* content occurs in text as one contiguous stretch *)
Within(content, text) ==
    \E o \in 0..(Len(text) - Len(content)) :
        SubSeq(text, o + 1, o + Len(content)) = content

(* C23: every row inserted by process_structured_chunks holds text taken   *)
(* from exactly one section and carries that section's label as            *)
(* section_label; no chunk contains text of two sections.                  *)
C23_OneSectionPerChunk ==
    resp.op = "process_structured_chunks" =>
        \A i \in DOMAIN doc_chunks :
            /\ doc_chunks[i].content # << >>
            /\ \E s \in DOMAIN resp.data :
                  /\ doc_chunks[i].section_label = resp.data[s].section
                  /\ Within(doc_chunks[i].content, TextOf(resp.data[s]))
                  /\ Len(doc_chunks[i].content) <= resp.data[s].n
                  /\ \A t \in DOMAIN resp.data :
                        doc_chunks[i].section_label = resp.data[t].section
                           => t = s

(* two short pages that would fit into one chunk gave one row each *)
C23_Witness ==
    /\ resp.op = "process_structured_chunks"
    /\ Len(resp.data) = 2
    /\ resp.data[1].n = 3 /\ resp.data[2].n = 7
    /\ Len(doc_chunks) = 2
    /\ doc_chunks[1].section_label = "page_1"
    /\ Len(doc_chunks[1].content) = 3
    /\ doc_chunks[2].section_label = "page_2"
    /\ Len(doc_chunks[2].content) = 7

----------------------------------------------------------------------------
(* Account administration on its own: the HOD, the faculty member and the  *)
(* pending student send the four account operations                        *)
AccountsApproveStep ==
    \E token \in SessionTokens, user_id \in 1..(Len(users) + 1),
       lg \in AuditOutcomes :
        approve_account(token, user_id, lg)

AccountsDenyStep ==
    \E token \in SessionTokens, user_id \in 1..(Len(users) + 1),
       lg \in AuditOutcomes :
        deny_account(token, user_id, lg)

AccountsRemoveStudentStep ==
    \E token \in SessionTokens, student_id \in 1..(Len(students) + 1),
       lg \in AuditOutcomes :
        remove_student(token, student_id, lg)

AccountsRemoveFacultyStep ==
    \E token \in SessionTokens, faculty_id \in 1..(Len(faculties) + 1),
       lg \in AuditOutcomes :
        remove_faculty(token, faculty_id, lg)

NextAccounts ==
    \/ AccountsApproveStep \/ AccountsDenyStep
    \/ AccountsRemoveStudentStep \/ AccountsRemoveFacultyStep

SpecAccounts == Init /\ [][NextAccounts]_vars

(* C25: after any sequence of approve_account, deny_account,               *)
(* remove_student and remove_faculty every account's status is one of      *)
(* PENDING, ACTIVE, SUSPENDED, and deny_account on an existing account     *)
(* returns its success response.                                           *)
C25_AsStated ==
    /\ \A a \in DOMAIN users :
          users[a].status \in {"PENDING", "ACTIVE", "SUSPENDED"}
    /\ (/\ resp.op = "deny_account"
        /\ resp.status \notin {401, 403}
        /\ resp.arg \in DOMAIN users) =>
          (resp.status = 200 /\ resp.detail = "Account denied.")

----------------------------------------------------------------------------
(* approve_file with a process that may stop between its two writes.  The  *)
(* handler is cut where the code has done the re-submission to the smart   *)
(* repository (admin.py lines 470-484) and has not yet committed the       *)
(* status (486-488).  A request in flight is the resp record with status 0 *)
(* (no response sent yet); ext holds what became of the re-submission.     *)
InFlight == resp.op = "approve_file" /\ resp.status = 0

(* lines 467-484: lookup and re-submission *)
approve_file_ingest(token, file_id, rag) ==
    LET caller == Caller("approve_file", token)
        f == files[file_id]
    IN
    /\ ~InFlight
    /\ UNCHANGED <<users, students, faculties, files, pins, notifs, disk, now,
                   hist, audit, smart, procs>>
    /\ IF ~Admitted("approve_file", token) THEN
          /\ resp' = Rejected("approve_file", token, file_id)
          /\ UNCHANGED repo
       ELSE IF file_id \notin DOMAIN files THEN
          /\ resp' = Resp("approve_file", token, 404, "File not found",
                          caller, file_id)
          /\ UNCHANGED repo
       ELSE
          /\ repo' = IF Ingest(f, rag) = "ok"
                     THEN repo \cup {[filename |-> f.filename, role |-> "faculty",
                                      owner_id |-> f.uploaded_by_id]}
                     ELSE repo
          /\ resp' = [Resp("approve_file", token, 0, "", caller, file_id)
                       EXCEPT !.ext = Ingest(f, rag),
                              !.before.status = f.status]

(* lines 486-490: the status commit, the audit row and the response *)
approve_file_commit(lg) ==
    /\ InFlight
    /\ files' = [files EXCEPT ![resp.arg].status =
                                 ApprovedStatus(files[resp.arg], resp.ext)]
    /\ audit' = log_action(lg, "APPROVE_FILE", resp.user)
    /\ resp' = [resp EXCEPT !.status = 200, !.logged = lg]
    /\ UNCHANGED <<users, students, faculties, pins, notifs, disk, repo, now,
                   hist, smart, procs>>

(* The portal process is killed while the request is in flight: the        *)
(* committed rows of both stores stay, the request is gone                 *)
Crash ==
    /\ InFlight
    /\ resp' = [resp EXCEPT !.op = "crash"]
    /\ UNCHANGED <<users, students, faculties, files, pins, notifs, disk,
                   repo, now, hist, audit, smart, procs>>

CrashUploadStep ==
    \E meta \in ClassifierResults :
        /\ ~InFlight
        /\ Len(files) < MaxFiles
        /\ student_upload_file(create_access_token(str(1)), "notes.pdf", "b1",
                               meta, "written")

CrashIngestStep ==
    \E token \in {create_access_token(str(1)), create_access_token(str(3))},
       file_id \in 1..(Len(files) + 1), rag \in RagOutcomes :
        approve_file_ingest(token, file_id, rag)

CrashCommitStep == \E lg \in AuditOutcomes : approve_file_commit(lg)

CrashDenyStep ==
    \E file_id \in DOMAIN files :
        /\ ~InFlight
        /\ deny_file(create_access_token(str(3)), file_id, "written")

NextCrash ==
    \/ CrashUploadStep \/ CrashIngestStep \/ CrashCommitStep \/ Crash
    \/ CrashDenyStep

SpecCrash == InitPortal /\ [][NextCrash]_vars

(* The smart repository holds the file *)
Ingested(f) ==
    [filename |-> f.filename, role |-> "faculty",
     owner_id |-> f.uploaded_by_id] \in repo

(* C21: if the process crashes between the two steps of approve_file the   *)
(* file is APPROVED in the portal DB and has no chunks in the repository   *)
(* DB; the opposite state, ingested in the repository while still PENDING  *)
(* in the portal, is never reached.                                        *)
C21_AsStated ==
    /\ resp.op = "crash" =>
          /\ files[resp.arg].status = "APPROVED"
          /\ ~Ingested(files[resp.arg])
    /\ \A id \in DOMAIN files :
          ~(Ingested(files[id]) /\ files[id].status = "PENDING")

----------------------------------------------------------------------------
(* Account creation: routers/auth.py register_student and routers/admin.py *)
(* add_student, add_faculty.  Student rows carry their usn here, Faculty   *)
(* rows their employee_id; both columns are unique (models.py 39, 52), as  *)
(* are User.email and the user_id of every profile table.                  *)

(* The Admin table; no handler writes it *)
Admins == << [user_id |-> 1] >>

(* str.upper() and str.lower() on the USNs that occur *)
Upper(usn) == CASE usn = "1ab" -> "1AB" [] usn = "2cd" -> "2CD" [] OTHER -> usn

LowerUsn(usn) == CASE usn = "1AB" -> "1ab" [] usn = "2CD" -> "2cd" [] OTHER -> usn

(* f"{data.usn.lower()}@university.edu" (auth.py line 143) *)
UniEmail(usn) ==
    CASE LowerUsn(usn) = "1ab" -> "1ab@university.edu"
      [] LowerUsn(usn) = "2cd" -> "2cd@university.edu"

EmailTaken(email) == \E i \in DOMAIN users : users[i].email = email

UsnTaken(usn) == \E i \in DOMAIN students : students[i].usn = usn

EmployeeIdTaken(employee_id) ==
    \E i \in DOMAIN faculties : faculties[i].employee_id = employee_id

CreateResp(op, token, status, detail, user, usn) ==
    [Resp(op, token, status, detail, user, Len(users)) EXCEPT !.ext = usn]

(* POST /auth/register *)
register_student(usn, bot_check, lg) ==
    LET Refuse(detail) ==
            /\ resp' = CreateResp("register_student", NoCookie, 400, detail, 0,
                                  usn)
            /\ UNCHANGED <<users, students, audit>>
    IN
    /\ UNCHANGED <<faculties, files, pins, notifs, disk, repo, now, hist, smart, procs>>
    /\ IF bot_check # "4" THEN Refuse("Anti-bot check failed. (Hint: 2+2=4)")
       ELSE IF UsnTaken(Upper(usn))
       THEN Refuse("A student with this USN already exists.")
       ELSE IF EmailTaken(UniEmail(usn))
       THEN Refuse("This university email is already taken. Please contact admin.")
       ELSE
          /\ users' = Append(users, NewUser(UniEmail(usn),
                                            get_password_hash("pw1"),
                                            "STUDENT", "PENDING"))
          /\ students' = Append(students, [user_id |-> Len(users) + 1,
                                           usn |-> Upper(usn)])
          /\ audit' = log_action(lg, "STUDENT_REGISTER", Len(users) + 1)
          /\ resp' = Logged(CreateResp("register_student", NoCookie, 200,
                                       "Registration successful!", 0, usn),
                            lg)

(* POST /admin/students.  The User row is committed (line 122) before the  *)
(* Student row is added; a commit that breaks a unique column raises       *)
(* IntegrityError, which nothing catches: the request ends as a 500 and    *)
(* what was committed before stays.                                        *)
add_student(token, usn, email, lg) ==
    LET caller == Caller("add_student", token)
        new_user == NewUser(email, get_password_hash("student123"),
                            "STUDENT", "ACTIVE")
    IN
    /\ UNCHANGED <<faculties, files, pins, notifs, disk, repo, now, hist, smart, procs>>
    /\ IF ~Admitted("add_student", token) THEN
          /\ resp' = Rejected("add_student", token, 0)
          /\ UNCHANGED <<users, students, audit>>
       ELSE IF EmailTaken(email) THEN
          /\ resp' = CreateResp("add_student", token, 500,
                                "Internal Server Error", caller, usn)
          /\ UNCHANGED <<users, students, audit>>
       ELSE IF UsnTaken(usn) THEN
          /\ users' = Append(users, new_user)
          /\ resp' = CreateResp("add_student", token, 500,
                                "Internal Server Error", caller, usn)
          /\ UNCHANGED <<students, audit>>
       ELSE
          /\ users' = Append(users, new_user)
          /\ students' = Append(students, [user_id |-> Len(users) + 1,
                                           usn |-> usn])
          /\ audit' = log_action(lg, "ADMIN_ADD_STUDENT", caller)
          /\ resp' = Logged(CreateResp("add_student", token, 200,
                                       "Student added successfully", caller,
                                       usn), lg)

(* POST /admin/faculty: the same two commits (lines 210, 221) *)
add_faculty(token, employee_id, email, lg) ==
    LET caller == Caller("add_faculty", token)
        new_user == NewUser(email, get_password_hash("faculty123"),
                            "FACULTY", "ACTIVE")
    IN
    /\ UNCHANGED <<students, files, pins, notifs, disk, repo, now, hist, smart, procs>>
    /\ IF ~Admitted("add_faculty", token) THEN
          /\ resp' = Rejected("add_faculty", token, 0)
          /\ UNCHANGED <<users, faculties, audit>>
       ELSE IF EmailTaken(email) THEN
          /\ resp' = CreateResp("add_faculty", token, 500,
                                "Internal Server Error", caller, employee_id)
          /\ UNCHANGED <<users, faculties, audit>>
       ELSE IF EmployeeIdTaken(employee_id) THEN
          /\ users' = Append(users, new_user)
          /\ resp' = CreateResp("add_faculty", token, 500,
                                "Internal Server Error", caller, employee_id)
          /\ UNCHANGED <<faculties, audit>>
       ELSE
          /\ users' = Append(users, new_user)
          /\ faculties' = Append(faculties, [user_id |-> Len(users) + 1,
                                             employee_id |-> employee_id])
          /\ audit' = log_action(lg, "ADMIN_ADD_FACULTY", caller)
          /\ resp' = Logged(CreateResp("add_faculty", token, 200,
                                       "Faculty added successfully", caller,
                                       employee_id), lg)

(* The store holds the HOD; students register themselves and the HOD adds  *)
(* students and faculty members, up to MaxAccounts accounts                *)
MaxAccounts == 4

InitCreate ==
    /\ users = << NewUser("admin@university.edu", get_password_hash("pw2"),
                          "ADMIN", "ACTIVE") >>
    /\ students = << >>
    /\ faculties = << >>
    /\ files = << >>
    /\ pins = << >>
    /\ notifs = << >>
    /\ disk = {}
    /\ repo = {}
    /\ now = 0
    /\ resp = NoResp
    /\ hist = << >>
    /\ audit = << >>
    /\ repository_files = << >>
    /\ doc_chunks = << >>
    /\ section = NoSection
    /\ chunks = << >>
    /\ procs = << >>

Usns == {"1ab", "1AB", "2cd"}

NewEmails == {"1ab@university.edu", "x@university.edu", "y@university.edu"}

EmployeeIds == {"E1", "E2"}

RegisterStudentStep ==
    \E usn \in Usns, bot_check \in {"4", "5"} :
        /\ Len(users) < MaxAccounts
        /\ register_student(usn, bot_check, "written")

AddStudentStep ==
    \E token \in SessionTokens, usn \in Usns, email \in NewEmails :
        /\ Len(users) < MaxAccounts
        /\ add_student(token, usn, email, "written")

AddFacultyStep ==
    \E token \in SessionTokens, employee_id \in EmployeeIds,
       email \in NewEmails :
        /\ Len(users) < MaxAccounts
        /\ add_faculty(token, employee_id, email, "written")

NextCreate == RegisterStudentStep \/ AddStudentStep \/ AddFacultyStep

SpecCreate == InitCreate /\ [][NextCreate]_vars

(* The profile rows that reference the user: <<table, row id>> *)
ProfilesOf(uid) ==
    {<<"student", i>> : i \in {j \in DOMAIN students : students[j].user_id = uid}}
    \cup
    {<<"faculty", i>> : i \in {j \in DOMAIN faculties : faculties[j].user_id = uid}}
    \cup
    {<<"admin", i>> : i \in {j \in DOMAIN Admins : Admins[j].user_id = uid}}

(* C24: after any sequence of register_student, add_student and            *)
(* add_faculty calls, including calls that fail partway, every User row    *)
(* has exactly one profile row (Student, Faculty or Admin) that references *)
(* it.                                                                     *)
C24_AsStated ==
    \A uid \in DOMAIN users : Cardinality(ProfilesOf(uid)) = 1

----------------------------------------------------------------------------
(* Logins of one account served at the same time (several worker processes *)
(* on one database).  A request is cut where the code is: it has read the  *)
(* row and checked lock and password (auth.py lines 33-45), and it has not *)
(* yet committed (46-55).  The commit writes the columns the request       *)
(* assigned, computed from the row it read; nothing locks the row between  *)
(* the read and the commit.  procs[w] is the request worker w is serving.  *)
(* All requests fall into one lock window: the clock stands still.         *)
MaxWorkers == 2

MaxChecks == 6

Idle == [pc |-> "idle", a |-> 0, account |-> << >>]

Quiescent == \A w \in DOMAIN procs : procs[w].pc = "idle"

InitRace ==
    /\ users = << NewUser("student@university.edu", get_password_hash("pw1"),
                          "STUDENT", "ACTIVE") >>
    /\ students = << [user_id |-> 1] >>
    /\ faculties = << >>
    /\ files = << >>
    /\ pins = << >>
    /\ notifs = << >>
    /\ disk = {}
    /\ repo = {}
    /\ now = 0
    /\ resp = NoResp
    /\ hist = [i \in 1..1 |-> NoHist]
    /\ audit = << >>
    /\ repository_files = << >>
    /\ doc_chunks = << >>
    /\ section = NoSection
    /\ chunks = << >>
    /\ procs = [w \in 1..MaxWorkers |-> Idle]

(* lines 33-45: select the row, lock check, verify_password.  hist counts  *)
(* the wrong passwords checked.                                            *)
LoginRead(w, email, password) ==
    LET a == UserByEmail(email)
        account == users[a]
    IN
    /\ procs[w].pc = "idle"
    /\ a # 0
    /\ UNCHANGED <<users, students, faculties, files, pins, notifs, disk,
                   repo, now, audit, smart>>
    /\ IF Locked(account, now) THEN
          /\ resp' = [LoginResp(403, "Account locked", a, email, password)
                        EXCEPT !.retry = RetryIn(account.lockout_until, now),
                               !.data = <<now>>]
          /\ UNCHANGED <<hist, procs>>
       ELSE
          /\ hist[a].run < MaxChecks
          /\ ~verify_password(password, account.password_hash)
          /\ hist' = [hist EXCEPT ![a].run = hist[a].run + 1]
          /\ procs' = [procs EXCEPT ![w] = [pc |-> "commit", a |-> a,
                                            account |-> account]]
          /\ resp' = [LoginResp(0, "", a, email, password) EXCEPT !.arg = w]

(* lines 46-59: the row the request computed from what it read is written  *)
(* and committed, then the 401 is sent                                     *)
LoginCommit(w, lg) ==
    LET a == procs[w].a
        account == procs[w].account
        after == FailedAttempt(account, now)
    IN
    /\ procs[w].pc = "commit"
    /\ users' = [users EXCEPT
                   ![a].failed_attempts = after.failed_attempts,
                   ![a].lockout_until =
                       IF after.lockout_until # account.lockout_until
                       THEN after.lockout_until
                       ELSE users[a].lockout_until]
    /\ audit' = log_action(lg, "LOGIN_FAILED", a)
    /\ resp' = Logged(
           [(IF after.lockout_until # account.lockout_until
             THEN LoginResp(401, "Too many failed attempts", a, "", "")
             ELSE LoginResp(401, "Attempt n/4", a, "", ""))
              EXCEPT !.arg = w], lg)
    /\ procs' = [procs EXCEPT ![w] = Idle]
    /\ UNCHANGED <<students, faculties, files, pins, notifs, disk, repo, now,
                   hist, smart>>

LoginReadStep ==
    \E w \in DOMAIN procs, password \in {"pw2", "pw3"} :
        LoginRead(w, "student@university.edu", password)

LoginCommitStep ==
    \E w \in DOMAIN procs, lg \in AuditOutcomes : LoginCommit(w, lg)

NextRace == LoginReadStep \/ LoginCommitStep

SpecRace == InitRace /\ [][NextRace]_vars

(* C28: when several login requests for the same account run at the same  *)
(* time (each reads the row, checks the password, writes the row back),    *)
(* the account is locked after at most 4 wrong-password attempts in total: *)
(* no interleaving lets more than 4 wrong passwords be checked without     *)
(* lockout_until being set.  Stated for the moments when no request is in  *)
(* flight.                                                                 *)
C28_AsStated ==
    \A a \in DOMAIN users :
        (Quiescent /\ hist[a].run >= MaxAttempts) =>
            users[a].lockout_until # None

====
